---- MODULE Spec2Model ----
(***************************************************************************)
(* Model of the syscall-forwarding system: the RPC server (rpc_server.c)   *)
(* with its client->server descriptor table, and the interposing shim      *)
(* (rpc_client.c and intercept/*.h).                                       *)
(***************************************************************************)
EXTENDS Integers, Sequences, FiniteSets, TLC

(***************************************************************************)
(* Program constants                                                       *)
(***************************************************************************)
MAX_FDS == 1024
FIRST_CLIENT_FD == 3
MAX_BUFFER_SIZE == 4

EBADF == 9
ENFILE == 23
ENOENT == 2
EIO == 5

(***************************************************************************)
(* Bounds of the model                                                     *)
(***************************************************************************)
\* clients stop asking for descriptors once this many were handed out
MaxIssued == 3
\* RLIMIT_NOFILE of the server process is MAX_FDS + NoFileSlack
NoFileSlack == 2

(***************************************************************************)
(* fcntl vocabulary (intercept_fcntl.h, get_fcntl_arg_type)                *)
(***************************************************************************)
FcntlCmds == {"F_DUPFD", "F_DUPFD_CLOEXEC", "F_GETFD", "F_SETFD", "F_GETFL",
              "F_SETFL", "F_GETOWN", "F_SETOWN", "F_GETLK", "F_SETLK",
              "F_SETLKW", "F_UNKNOWN"}

get_fcntl_arg_type(cmd) ==
    CASE cmd \in {"F_GETFD", "F_GETFL", "F_GETOWN"} -> "FCNTL_ARG_NONE"
      [] cmd \in {"F_DUPFD", "F_DUPFD_CLOEXEC", "F_SETFD", "F_SETFL", "F_SETOWN"}
                                                    -> "FCNTL_ARG_INT"
      [] cmd \in {"F_GETLK", "F_SETLK", "F_SETLKW"} -> "FCNTL_ARG_FLOCK"
      [] OTHER                                      -> "FCNTL_ARG_NONE"

(***************************************************************************)
(* The server's kernel (environment of rpc_server.c).  kfd maps each open  *)
(* server descriptor to its open file description; fs is the set of paths  *)
(* that exist.  Every kernel call yields a set of possible outcomes        *)
(* [ret, err, kfd, fs]; err is the value the call leaves in errno, which   *)
(* a successful call does not touch (err = old).                           *)
(***************************************************************************)
Paths == {"/tmp/t.txt", "/tmp/nonexistent_abcdef"}
KOwnFds == {0, 1, 2, 3}
NoFile == MAX_FDS + NoFileSlack
\* error numbers only the kernel produces (errno.h)
KErr == [EACCES |-> 13, EINVAL |-> 22, EMFILE |-> 24]
KIoErrnos == {EIO}
FileBytes == <<72, 101, 108, 108, 111>>
ZeroStat == [dev |-> 0, ino |-> 0, mode |-> 0, nlink |-> 0, uid |-> 0, gid |-> 0,
             rdev |-> 0, size |-> 0, blksize |-> 0, blocks |-> 0,
             atime |-> 0, mtime |-> 0, ctime |-> 0]
FileStat == [dev |-> 64, ino |-> 17, mode |-> 33188, nlink |-> 1, uid |-> 1000,
             gid |-> 1000, rdev |-> 0, size |-> Len(FileBytes), blksize |-> 4096,
             blocks |-> 8, atime |-> 100, mtime |-> 101, ctime |-> 102]

Range(f) == {f[x] : x \in DOMAIN f}
MinOf(S) == CHOOSE m \in S : \A x \in S : m <= x
FreeKFds(kfd, lo) == {n \in lo..(lo + Cardinality(DOMAIN kfd)) : n \notin DOMAIN kfd}
LowestFree(kfd, lo) == MinOf(FreeKFds(kfd, lo))
FreshDesc(kfd) == MinOf({d \in 1..(Cardinality(DOMAIN kfd) + 1) : d \notin Range(kfd)})
Bind(kfd, fd, d) == [x \in DOMAIN kfd \cup {fd} |-> IF x = fd THEN d ELSE kfd[x]]
Release(kfd, fd) == [x \in DOMAIN kfd \ {fd} |-> kfd[x]]

\* open(2)/openat(2): lowest free descriptor, a fresh open file description
k_open(kfd, fs, old, path, creat) ==
    (IF (path \in fs \/ creat) /\ LowestFree(kfd, 0) < NoFile
        THEN {[ret |-> LowestFree(kfd, 0), err |-> old,
               kfd |-> Bind(kfd, LowestFree(kfd, 0), FreshDesc(kfd)),
               fs |-> fs \cup {path}]}
        ELSE {})
    \cup (IF path \notin fs /\ ~creat
             THEN {[ret |-> -1, err |-> ENOENT, kfd |-> kfd, fs |-> fs]}
             ELSE {})
    \cup (IF LowestFree(kfd, 0) >= NoFile
             THEN {[ret |-> -1, err |-> KErr.EMFILE, kfd |-> kfd, fs |-> fs]}
             ELSE {})

\* close(2) on Linux: the descriptor is released even when close reports an error
k_close(kfd, fs, old, fd) ==
    IF fd \notin DOMAIN kfd
       THEN {[ret |-> -1, err |-> EBADF, kfd |-> kfd, fs |-> fs]}
       ELSE {[ret |-> 0, err |-> old, kfd |-> Release(kfd, fd), fs |-> fs]}
            \cup {[ret |-> -1, err |-> e, kfd |-> Release(kfd, fd), fs |-> fs] :
                     e \in KIoErrnos}

\* fcntl(2): F_DUPFD* duplicate onto the lowest free descriptor >= arg, sharing
\* the open file description; lock commands may be refused
k_fcntl(kfd, fs, old, fd, cmd, iarg) ==
    IF fd \notin DOMAIN kfd
       THEN {[ret |-> -1, err |-> EBADF, kfd |-> kfd, fs |-> fs]}
    ELSE IF cmd \in {"F_DUPFD", "F_DUPFD_CLOEXEC"}
       THEN IF iarg < 0 \/ iarg >= NoFile
               THEN {[ret |-> -1, err |-> KErr.EINVAL, kfd |-> kfd, fs |-> fs]}
            ELSE IF LowestFree(kfd, iarg) >= NoFile
               THEN {[ret |-> -1, err |-> KErr.EMFILE, kfd |-> kfd, fs |-> fs]}
            ELSE {[ret |-> LowestFree(kfd, iarg), err |-> old,
                   kfd |-> Bind(kfd, LowestFree(kfd, iarg), kfd[fd]), fs |-> fs]}
    ELSE IF cmd = "F_UNKNOWN"
       THEN {[ret |-> -1, err |-> KErr.EINVAL, kfd |-> kfd, fs |-> fs]}
    ELSE {[ret |-> 0, err |-> old, kfd |-> kfd, fs |-> fs]}
         \cup (IF cmd \in {"F_SETLK", "F_SETLKW"}
                  THEN {[ret |-> -1, err |-> KErr.EACCES, kfd |-> kfd, fs |-> fs]}
                  ELSE {})

\* read(2)/pread(2): end of file, or the bytes available up to count
k_read(kfd, fs, old, fd, count) ==
    IF fd \notin DOMAIN kfd
       THEN {[ret |-> -1, err |-> EBADF, data |-> <<>>]}
       ELSE {[ret |-> n, err |-> old, data |-> SubSeq(FileBytes, 1, n)] :
                n \in {0, IF count < Len(FileBytes) THEN count ELSE Len(FileBytes)}}
            \cup {[ret |-> -1, err |-> EIO, data |-> <<>>]}

\* write(2)/pwrite(2): all of the bytes, or an error
k_write(kfd, fs, old, fd, len) ==
    IF fd \notin DOMAIN kfd
       THEN {[ret |-> -1, err |-> EBADF]}
       ELSE {[ret |-> len, err |-> old], [ret |-> -1, err |-> EIO]}

\* fdatasync(2)
k_fdatasync(kfd, fs, old, fd) ==
    IF fd \notin DOMAIN kfd
       THEN {[ret |-> -1, err |-> EBADF]}
       ELSE {[ret |-> 0, err |-> old], [ret |-> -1, err |-> EIO]}

\* stat(2)
k_stat(kfd, fs, old, path) ==
    IF path \in fs
       THEN {[ret |-> 0, err |-> old, st |-> FileStat]}
       ELSE {[ret |-> -1, err |-> ENOENT, st |-> ZeroStat]}

\* fstat(2)
k_fstat(kfd, fs, old, fd) ==
    IF fd \in DOMAIN kfd
       THEN {[ret |-> 0, err |-> old, st |-> FileStat]}
       ELSE {[ret |-> -1, err |-> EBADF, st |-> ZeroStat]}

(***************************************************************************)
(* The descriptor table of rpc_server.c                                    *)
(***************************************************************************)
init_fd_mapping == [i \in 0..(MAX_FDS - 1) |-> -1]

\* the while loop of add_fd_mapping_from: first free slot at or after client_fd
RECURSIVE scan_free(_, _)
scan_free(tbl, client_fd) ==
    IF client_fd < MAX_FDS
       THEN IF tbl[client_fd] = -1 THEN client_fd ELSE scan_free(tbl, client_fd + 1)
       ELSE -1

\* faulty variant: the lowest free slot is handed out and the cursor follows it
add_fd_mapping_reuse(tbl, next, server_fd) ==
    LET client_fd == scan_free(tbl, FIRST_CLIENT_FD)
    IN  IF client_fd = -1
           THEN [ret |-> -1, tbl |-> tbl, next |-> next]
           ELSE [ret |-> client_fd,
                 tbl |-> [tbl EXCEPT ![client_fd] = server_fd],
                 next |-> client_fd + 1]

\* faulty variant: the bound check is off by one, so a full table still hands out MAX_FDS
add_fd_mapping_offbyone(tbl, next, server_fd) ==
    IF next > MAX_FDS
       THEN [ret |-> -1, tbl |-> tbl, next |-> next]
       ELSE [ret |-> next,
             tbl |-> IF next < MAX_FDS THEN [tbl EXCEPT ![next] = server_fd] ELSE tbl,
             next |-> next + 1]

\* faulty variant: the slot below the cursor is handed out again when it is free
add_fd_mapping_refill(tbl, next, server_fd) ==
    IF next > FIRST_CLIENT_FD /\ next <= MAX_FDS /\ tbl[next - 1] = -1
       THEN [ret |-> next - 1, tbl |-> [tbl EXCEPT ![next - 1] = server_fd], next |-> next]
       ELSE IF next >= MAX_FDS
               THEN [ret |-> -1, tbl |-> tbl, next |-> next]
               ELSE [ret |-> next, tbl |-> [tbl EXCEPT ![next] = server_fd],
                     next |-> next + 1]

add_fd_mapping(tbl, next, server_fd) ==
    IF next >= MAX_FDS
       THEN [ret |-> -1, tbl |-> tbl, next |-> next]
       ELSE [ret |-> next, tbl |-> [tbl EXCEPT ![next] = server_fd], next |-> next + 1]

\* faulty variant: the search starts at min_fd whatever the cursor is
add_fd_mapping_from_min(tbl, next, server_fd, min_fd) ==
    LET start == IF min_fd > 0 THEN min_fd ELSE 0
        client_fd == scan_free(tbl, start)
    IN  IF client_fd = -1
           THEN [ret |-> -1, tbl |-> tbl, next |-> next]
           ELSE [ret |-> client_fd,
                 tbl |-> [tbl EXCEPT ![client_fd] = server_fd],
                 next |-> IF client_fd >= next THEN client_fd + 1 ELSE next]

\* faulty variant: the search starts at min_fd and uses free slots below the cursor
add_fd_mapping_from_lowest(tbl, next, server_fd, min_fd) ==
    LET start == IF min_fd > FIRST_CLIENT_FD THEN min_fd ELSE FIRST_CLIENT_FD
        client_fd == scan_free(tbl, start)
    IN  IF client_fd = -1
           THEN [ret |-> -1, tbl |-> tbl, next |-> next]
           ELSE [ret |-> client_fd,
                 tbl |-> [tbl EXCEPT ![client_fd] = server_fd],
                 next |-> IF client_fd >= next THEN client_fd + 1 ELSE next]

\* faulty variant: the search ignores min_fd and starts at the cursor
add_fd_mapping_from_nomin(tbl, next, server_fd, min_fd) ==
    LET client_fd == scan_free(tbl, next)
    IN  IF client_fd = -1
           THEN [ret |-> -1, tbl |-> tbl, next |-> next]
           ELSE [ret |-> client_fd,
                 tbl |-> [tbl EXCEPT ![client_fd] = server_fd],
                 next |-> IF client_fd >= next THEN client_fd + 1 ELSE next]

\* faulty variant: next_client_fd is not moved past the slot a dup took
add_fd_mapping_from_keepcursor(tbl, next, server_fd, min_fd) ==
    LET start == IF min_fd > next THEN min_fd ELSE next
        client_fd == scan_free(tbl, start)
    IN  IF client_fd = -1
           THEN [ret |-> -1, tbl |-> tbl, next |-> next]
           ELSE [ret |-> client_fd,
                 tbl |-> [tbl EXCEPT ![client_fd] = server_fd],
                 next |-> next]

add_fd_mapping_from(tbl, next, server_fd, min_fd) ==
    LET start == IF min_fd > next THEN min_fd ELSE next
        client_fd == scan_free(tbl, start)
    IN  IF client_fd = -1
           THEN [ret |-> -1, tbl |-> tbl, next |-> next]
           ELSE [ret |-> client_fd,
                 tbl |-> [tbl EXCEPT ![client_fd] = server_fd],
                 next |-> IF client_fd >= next THEN client_fd + 1 ELSE next]

\* faulty variant: the slot is never cleared
remove_fd_mapping_noop(tbl, client_fd) == tbl

remove_fd_mapping(tbl, client_fd) ==
    IF client_fd >= 0 /\ client_fd < MAX_FDS
       THEN [tbl EXCEPT ![client_fd] = -1]
       ELSE tbl

translate_fd(tbl, client_fd) ==
    IF client_fd < 0 \/ client_fd >= MAX_FDS THEN -1 ELSE tbl[client_fd]

(***************************************************************************)
(* State                                                                   *)
(***************************************************************************)
Threads == {"t1"}

VARIABLES
    fd_mapping,      \* rpc_server.c: static int fd_mapping[MAX_FDS]
    next_client_fd,  \* rpc_server.c: static int next_client_fd
    s_errno,         \* errno of the server process
    kfd,             \* server kernel: open descriptor -> open file description
    fs,              \* server kernel: the paths that exist
    chan,            \* per connection: the request in flight or the reply sent
    ktrace,          \* kernel calls the handler made for the request in chan
    h_server_fd,     \* the handler's local server_fd for the request in chan
    live,            \* client descriptors allocated and not yet successfully closed
    dupsrc,          \* client descriptor from F_DUPFD* -> the descriptor duplicated
    nissued,         \* client descriptors handed out so far
    in_intercept,    \* intercept/*.h: static __thread int in_<symbol>_intercept
    rpc_in_progress, \* rpc_client.c: static __thread int rpc_in_progress
    in_rpc_init,     \* rpc_client.c: static __thread int in_rpc_init
    rpc_client,      \* rpc_client.c: static __thread CLIENT *rpc_client
    c_errno,         \* errno of the thread of the target process
    stack,           \* the shim frames active on the thread, innermost last
    c_ret,           \* what the shim call that returned last gave its caller
    last_entry,      \* the last entry into an interposed symbol
    exited,          \* the target process has called exit
    nnested,         \* calls the transport made into the shim for this target call
    ksys,            \* the syscall the shim issued last on the client's own kernel
    c_buf,           \* the buffer the target passed to its read or pread
    hlife,           \* per thread: handles created and destroyed, creation failed
    torn,            \* progress of the teardown hook cleanup_rpc_client
    o_call,          \* the last open, open64 or openat call and the mode it forwarded
    net,             \* the server's sockets, its dispatch loop and its static reply records
    c_out,           \* the stat buffer and the flock record the target passed to its call
    c_fds            \* the descriptors the target holds, by the path that returned them

svars == <<fd_mapping, next_client_fd, s_errno, kfd, fs, ktrace, h_server_fd,
           live, dupsrc, nissued>>
srvstate == <<fd_mapping, next_client_fd, s_errno, kfd, fs, live, dupsrc, nissued>>
outvars == <<ksys, c_buf, c_out, c_fds, c_fds>>
lifevars == <<hlife, torn>>
shimvars == <<in_intercept, rpc_in_progress, in_rpc_init, rpc_client, c_errno,
              stack, c_ret, last_entry, exited, nnested, ksys, c_buf, c_out, c_fds, hlife, torn,
              o_call>>
vars == <<fd_mapping, next_client_fd, s_errno, kfd, fs, chan, ktrace,
          h_server_fd, live, dupsrc, nissued, in_intercept, rpc_in_progress,
          in_rpc_init, rpc_client, c_errno, stack, c_ret, last_entry, exited,
          nnested, ksys, c_buf, c_out, c_fds, hlife, torn, o_call, net>>

AT_FDCWD == -100
NoFlock == [l_type |-> 0, l_whence |-> 0, l_start |-> 0, l_len |-> 0, l_pid |-> 0]
NoArgOut == [type |-> "FCNTL_ARG_NONE", flock |-> NoFlock]
NoReq == [op |-> "none", fd |-> -1, path |-> "", creat |-> FALSE, cmd |-> "",
          atype |-> "FCNTL_ARG_NONE", iarg |-> 0, flock |-> NoFlock, count |-> 0]
NoRes == [result |-> 0, err |-> 0, data |-> <<>>, st |-> ZeroStat, arg_out |-> NoArgOut]
IdleChan == [st |-> "idle", req |-> NoReq, res |-> NoRes]

FdOps == {"close", "read", "pread", "write", "pwrite", "fstat", "fcntl", "fdatasync"}
PathOps == {"open", "openat", "stat", "newfstatat"}

KCall(call, fd, ret) == [call |-> call, fd |-> fd, ret |-> ret]

Pending(t, op) == chan[t].st = "req" /\ chan[t].req.op = op
\* the handler returns &res: the reply goes on the wire; no client state is touched
Reply(t, res) ==
    /\ chan' = [chan EXCEPT ![t] = [st |-> "resp", req |-> chan[t].req, res |-> res]]
    /\ UNCHANGED shimvars
Res(result, err) == [NoRes EXCEPT !.result = result, !.err = err]
NoRet == [req |-> NoReq, result |-> 0, errno |-> 0, via |-> "none"]
NoEntry == [sym |-> "none", in_rpc |-> FALSE, path |-> "none", others |-> FALSE]
NoSys == [nr |-> "none", args |-> <<>>]
\* what the target's buffer holds before a read: bytes no file contains
InitBuf == <<170, 170, 170, 170, 170>>
\* struct stat as the target sees it: the thirteen fields of the protocol and the
\* rest of the structure (nanoseconds, padding)
StatBuf(st, rest) == [f \in DOMAIN st \cup {"rest"} |-> IF f = "rest" THEN rest ELSE st[f]]
\* what the target's stat buffer holds before the call: values no file has
GarbageStat == StatBuf([f \in DOMAIN ZeroStat |-> 170], 170)
\* the target's out-parameters at the call: its stat buffer and the flock record
\* it passes to fcntl
InitOut(req) == [st |-> GarbageStat, flock |-> req.flock]
\* the target holds no descriptor that an interposed call returned
NoFds == [rpc |-> {}, local |-> {}]
\* cleanup_rpc_client has not run; by: the thread that called exit
NoTeardown == [st |-> "no", by |-> "none"]
NoLife == [created |-> 0, destroyed |-> 0, failed |-> FALSE]
NoOpen == [sym |-> "none", flags |-> 0, has_va |-> FALSE, va |-> 0, via |-> "none",
           fwd_flags |-> 0, mode |-> 0, va_read |-> FALSE]

\* the state after the server has started and the shim has been loaded into a
\* target process with threads T
\* the server's connection level: transport chosen by RPC_TRANSPORT, the listening
\* socket, the connections accepted so far and still open, the requests that
\* arrived and wait for svc_run, the request in the dispatcher, the handlers'
\* static response records, and the replies written to each connection
NoWire == [full |-> FALSE, res |-> NoRes]
NetOf(tr, T, ops) ==
    [transport |-> tr, listening |-> TRUE, accepted |-> {}, open |-> {},
     arrq |-> <<>>, busy |-> "none", sres |-> [o \in ops |-> NoRes],
     wire |-> [c \in T |-> NoWire]]
NoNet == NetOf("unix", {}, {})

InitState(T, n) ==
    /\ fd_mapping = init_fd_mapping
    /\ next_client_fd = FIRST_CLIENT_FD
    /\ s_errno = 0
    /\ kfd = [x \in KOwnFds |-> 0]
    /\ fs = {"/tmp/t.txt"}
    /\ chan = [t \in T |-> IdleChan]
    /\ ktrace = <<>>
    /\ h_server_fd = -1
    /\ live = {}
    /\ dupsrc = <<>>
    /\ nissued = 0
    /\ in_intercept = [t \in T |-> {}]
    /\ rpc_in_progress = [t \in T |-> FALSE]
    /\ in_rpc_init = [t \in T |-> FALSE]
    /\ rpc_client = [t \in T |-> "NULL"]
    /\ c_errno = [t \in T |-> 0]
    /\ stack = [t \in T |-> <<>>]
    /\ c_ret = [t \in T |-> NoRet]
    /\ last_entry = [t \in T |-> NoEntry]
    /\ exited = FALSE
    /\ nnested = [t \in T |-> 0]
    /\ ksys = [t \in T |-> NoSys]
    /\ c_buf = [t \in T |-> InitBuf]
    /\ hlife = [t \in T |-> NoLife]
    /\ torn = NoTeardown
    /\ o_call = NoOpen
    /\ net = n
    /\ c_out = [t \in T |-> InitOut(NoReq)]
    /\ c_fds = NoFds

\* the specifications below the connection level leave the sockets alone
InitOf(T) == InitState(T, NoNet)

Init == InitOf(Threads)

(***************************************************************************)
(* Server handlers (rpc_server.c)                                          *)
(***************************************************************************)
\* faulty variant: a mapping is made whatever the kernel open returned
open_maps_always(server_fd) == TRUE
\* syscall_open_1_svc, syscall_openat_1_svc: if (server_fd >= 0) add_fd_mapping(server_fd)
open_maps(server_fd) == server_fd >= 0

\* the part of syscall_open_1_svc and syscall_openat_1_svc after the kernel call
OpenTail(t, call, o) ==
    IF open_maps(o.ret)
       THEN LET m == add_fd_mapping(fd_mapping, next_client_fd, o.ret)
            IN  IF m.ret < 0
                   THEN \E c \in k_close(o.kfd, o.fs, o.err, o.ret) :
                          /\ Reply(t, Res(-1, ENFILE))
                          /\ kfd' = c.kfd /\ fs' = c.fs /\ s_errno' = c.err
                          /\ ktrace' = <<KCall(call, -1, o.ret), KCall("close", o.ret, c.ret)>>
                          /\ UNCHANGED <<fd_mapping, next_client_fd, live, nissued>>
                   ELSE /\ Reply(t, Res(m.ret, 0))
                        /\ fd_mapping' = m.tbl /\ next_client_fd' = m.next
                        /\ kfd' = o.kfd /\ fs' = o.fs /\ s_errno' = o.err
                        /\ ktrace' = <<KCall(call, -1, o.ret)>>
                        /\ live' = live \cup {m.ret}
                        /\ nissued' = nissued + 1
       ELSE /\ Reply(t, Res(-1, o.err))
            /\ kfd' = o.kfd /\ fs' = o.fs /\ s_errno' = o.err
            /\ ktrace' = <<KCall(call, -1, o.ret)>>
            /\ UNCHANGED <<fd_mapping, next_client_fd, live, nissued>>

syscall_open_1_svc(t) ==
    /\ Pending(t, "open")
    /\ \E o \in k_open(kfd, fs, s_errno, chan[t].req.path, chan[t].req.creat) :
          OpenTail(t, "open", o)
    /\ h_server_fd' = -1
    /\ UNCHANGED dupsrc

\* dirfd is handed to the kernel untranslated; the paths of the model are
\* absolute, for which openat(2) ignores dirfd
syscall_openat_1_svc(t) ==
    /\ Pending(t, "openat")
    /\ \E o \in k_open(kfd, fs, s_errno, chan[t].req.path, chan[t].req.creat) :
          OpenTail(t, "openat", o)
    /\ h_server_fd' = -1
    /\ UNCHANGED dupsrc

\* faulty variant: the mapping is removed whatever close returned
close_frees_slot_always(result) == TRUE

\* syscall_close_1_svc: if (res.result == 0) remove_fd_mapping(req->fd)
close_frees_slot(result) == result = 0

\* faulty variant: the slot of the descriptor before the closed one is cleared too
close_remove_neighbour(tbl, client_fd) ==
    remove_fd_mapping(remove_fd_mapping(tbl, client_fd), client_fd - 1)

\* syscall_close_1_svc: the table after a kernel close that returned 0
close_remove(tbl, client_fd) == remove_fd_mapping(tbl, client_fd)

syscall_close_1_svc(t) ==
    /\ Pending(t, "close")
    /\ LET req == chan[t].req
           server_fd == translate_fd(fd_mapping, req.fd)
       IN  /\ h_server_fd' = server_fd
           /\ IF server_fd < 0
                 THEN /\ Reply(t, Res(-1, EBADF))
                      /\ ktrace' = <<>>
                      /\ UNCHANGED <<fd_mapping, kfd, fs, s_errno, live>>
                 ELSE \E c \in k_close(kfd, fs, s_errno, server_fd) :
                        /\ Reply(t, Res(c.ret, c.err))
                        /\ ktrace' = <<KCall("close", server_fd, c.ret)>>
                        /\ kfd' = c.kfd /\ fs' = c.fs /\ s_errno' = c.err
                        /\ fd_mapping' = IF close_frees_slot(c.ret)
                                            THEN close_remove(fd_mapping, req.fd)
                                            ELSE fd_mapping
                        /\ live' = IF c.ret = 0 THEN live \ {req.fd} ELSE live
    /\ UNCHANGED <<next_client_fd, dupsrc, nissued>>

\* a kernel read or pread, with the count passed
KRead(call, fd, count, ret) == [call |-> call, fd |-> fd, ret |-> ret, count |-> count]

\* faulty variant: the request's count is passed on as it is
clamp_count_none(c) == c
\* unsigned int count = req->count; if (count > MAX_BUFFER_SIZE) count = MAX_BUFFER_SIZE
clamp_count(c) == IF c > MAX_BUFFER_SIZE THEN MAX_BUFFER_SIZE ELSE c

\* what the handler's static record (res.data, pointing into the static buffer)
\* holds from the request before; empty where the records are not followed
static_data(call) == IF call \in DOMAIN net.sres THEN net.sres[call].data ELSE <<>>

\* faulty variant: a failed read leaves data_val and data_len of the last reply
read_payload_stale(prev, ret, data) == IF ret >= 0 THEN data ELSE prev
\* res.data is cleared on entry and on failure; on success it is the buffer with
\* data_len = bytes_read
read_payload(prev, ret, data) == IF ret >= 0 THEN data ELSE <<>>

\* the common body of syscall_read_1_svc and syscall_pread_1_svc
ReadBody(t, call) ==
    LET req == chan[t].req
        server_fd == translate_fd(fd_mapping, req.fd)
        count == clamp_count(req.count)
        prev == static_data(call)
    IN  /\ h_server_fd' = server_fd
        /\ IF server_fd < 0
              THEN /\ Reply(t, [Res(-1, EBADF) EXCEPT !.data = read_payload(prev, -1, <<>>)])
                   /\ ktrace' = <<>>
                   /\ UNCHANGED s_errno
              ELSE \E r \in k_read(kfd, fs, s_errno, server_fd, count) :
                     /\ Reply(t, [Res(IF r.ret >= 0 THEN r.ret ELSE -1, r.err)
                                    EXCEPT !.data = read_payload(prev, r.ret, r.data)])
                     /\ ktrace' = <<KRead(call, server_fd, count, r.ret)>>
                     /\ s_errno' = r.err
        /\ UNCHANGED <<fd_mapping, next_client_fd, kfd, fs, live, dupsrc, nissued>>

syscall_read_1_svc(t) == Pending(t, "read") /\ ReadBody(t, "read")

syscall_pread_1_svc(t) == Pending(t, "pread") /\ ReadBody(t, "pread")

\* the common body of syscall_write_1_svc and syscall_pwrite_1_svc
WriteBody(t, call) ==
    LET req == chan[t].req
        server_fd == translate_fd(fd_mapping, req.fd)
    IN  /\ h_server_fd' = server_fd
        /\ IF server_fd < 0
              THEN /\ Reply(t, Res(-1, EBADF))
                   /\ ktrace' = <<>>
                   /\ UNCHANGED s_errno
              ELSE \E w \in k_write(kfd, fs, s_errno, server_fd, req.count) :
                     /\ Reply(t, Res(w.ret, w.err))
                     /\ ktrace' = <<KCall(call, server_fd, w.ret)>>
                     /\ s_errno' = w.err
        /\ UNCHANGED <<fd_mapping, next_client_fd, kfd, fs, live, dupsrc, nissued>>

syscall_write_1_svc(t) == Pending(t, "write") /\ WriteBody(t, "write")

syscall_pwrite_1_svc(t) == Pending(t, "pwrite") /\ WriteBody(t, "pwrite")

\* what the three stat handlers put in the reply for the kernel's answer k:
\* the error number captured in saved_errno is not used
stat_reply(k) ==
    IF k.ret = 0
       THEN [Res(0, 0) EXCEPT !.st = k.st]
       ELSE [Res(-1, 0) EXCEPT !.st = ZeroStat]

\* the common body of syscall_stat_1_svc and syscall_newfstatat_1_svc, which
\* both call stat(req->path, &statbuf)
StatBody(t) ==
    /\ \E k \in k_stat(kfd, fs, s_errno, chan[t].req.path) :
         /\ Reply(t, stat_reply(k))
         /\ ktrace' = <<KCall("stat", -1, k.ret)>>
         /\ s_errno' = k.err
    /\ h_server_fd' = -1
    /\ UNCHANGED <<fd_mapping, next_client_fd, kfd, fs, live, dupsrc, nissued>>

syscall_stat_1_svc(t) == Pending(t, "stat") /\ StatBody(t)

syscall_newfstatat_1_svc(t) == Pending(t, "newfstatat") /\ StatBody(t)

syscall_fstat_1_svc(t) ==
    /\ Pending(t, "fstat")
    /\ LET server_fd == translate_fd(fd_mapping, chan[t].req.fd)
       IN  /\ h_server_fd' = server_fd
           /\ \E k \in k_fstat(kfd, fs, s_errno, server_fd) :
                /\ Reply(t, stat_reply(k))
                /\ ktrace' = <<KCall("fstat", server_fd, k.ret)>>
                /\ s_errno' = k.err
    /\ UNCHANGED <<fd_mapping, next_client_fd, kfd, fs, live, dupsrc, nissued>>

syscall_fdatasync_1_svc(t) ==
    /\ Pending(t, "fdatasync")
    /\ LET server_fd == translate_fd(fd_mapping, chan[t].req.fd)
       IN  /\ h_server_fd' = server_fd
           /\ IF server_fd < 0
                 THEN /\ Reply(t, Res(-1, EBADF))
                      /\ ktrace' = <<>>
                      /\ UNCHANGED s_errno
                 ELSE \E k \in k_fdatasync(kfd, fs, s_errno, server_fd) :
                        /\ Reply(t, Res(k.ret, k.err))
                        /\ ktrace' = <<KCall("fdatasync", server_fd, k.ret)>>
                        /\ s_errno' = k.err
    /\ UNCHANGED <<fd_mapping, next_client_fd, kfd, fs, live, dupsrc, nissued>>

\* F_GETLK: the kernel rewrites the flock: no conflicting lock (l_type becomes
\* F_UNLCK = 2), or the description of a lock held by another process
k_getlk(flock) ==
    {[flock EXCEPT !.l_type = 2],
     [l_type |-> 1, l_whence |-> 0, l_start |-> 0, l_len |-> 8, l_pid |-> 4242]}

\* the reply syscall_fcntl_1_svc builds when translate_fd finds no mapping
\* faulty variant: the early return forgets the error number
fcntl_invalid_reply_noerr == Res(-1, 0)

fcntl_invalid_reply == Res(-1, EBADF)

\* the reply syscall_fcntl_1_svc builds when add_fd_mapping_from finds no slot
\* faulty variant: the errno of the kernel call, which succeeded, is reported
fcntl_full_reply_saved(saved_errno) == Res(-1, saved_errno)

fcntl_full_reply(saved_errno) == Res(-1, ENFILE)

syscall_fcntl_1_svc(t) ==
    /\ Pending(t, "fcntl")
    /\ LET req == chan[t].req
           server_fd == translate_fd(fd_mapping, req.fd)
           int_arg == IF req.atype = "FCNTL_ARG_INT" THEN req.iarg ELSE 0
       IN  /\ h_server_fd' = server_fd
           /\ IF server_fd < 0
                 THEN /\ Reply(t, fcntl_invalid_reply)
                      /\ ktrace' = <<>>
                      /\ UNCHANGED <<fd_mapping, next_client_fd, kfd, fs, s_errno,
                                     live, dupsrc, nissued>>
                 ELSE \E k \in k_fcntl(kfd, fs, s_errno, server_fd, req.cmd, int_arg) :
                      IF k.ret >= 0
                         THEN IF req.cmd \in {"F_DUPFD", "F_DUPFD_CLOEXEC"}
                                 THEN LET m == add_fd_mapping_from(fd_mapping,
                                                   next_client_fd, k.ret, int_arg)
                                      IN  IF m.ret < 0
                                             THEN \E c \in k_close(k.kfd, k.fs, k.err, k.ret) :
                                                    /\ Reply(t, fcntl_full_reply(k.err))
                                                    /\ kfd' = c.kfd /\ fs' = c.fs
                                                    /\ s_errno' = c.err
                                                    /\ ktrace' = <<KCall("fcntl", server_fd, k.ret),
                                                                   KCall("close", k.ret, c.ret)>>
                                                    /\ UNCHANGED <<fd_mapping, next_client_fd,
                                                                   live, dupsrc, nissued>>
                                             ELSE /\ Reply(t, Res(m.ret, 0))
                                                  /\ fd_mapping' = m.tbl
                                                  /\ next_client_fd' = m.next
                                                  /\ kfd' = k.kfd /\ fs' = k.fs
                                                  /\ s_errno' = k.err
                                                  /\ ktrace' = <<KCall("fcntl", server_fd, k.ret)>>
                                                  /\ live' = live \cup {m.ret}
                                                  /\ nissued' = nissued + 1
                                                  /\ dupsrc' = [x \in DOMAIN dupsrc \cup {m.ret} |->
                                                                  IF x = m.ret THEN req.fd
                                                                              ELSE dupsrc[x]]
                                 ELSE /\ \E lk \in k_getlk(req.flock) :
                                           Reply(t, [Res(k.ret, 0) EXCEPT !.arg_out =
                                              IF req.cmd = "F_GETLK" /\ req.atype = "FCNTL_ARG_FLOCK"
                                                 THEN [type |-> "FCNTL_ARG_FLOCK", flock |-> lk]
                                                 ELSE NoArgOut])
                                      /\ kfd' = k.kfd /\ fs' = k.fs /\ s_errno' = k.err
                                      /\ ktrace' = <<KCall("fcntl", server_fd, k.ret)>>
                                      /\ UNCHANGED <<fd_mapping, next_client_fd, live, dupsrc,
                                                     nissued>>
                         ELSE /\ Reply(t, Res(-1, k.err))
                              /\ kfd' = k.kfd /\ fs' = k.fs /\ s_errno' = k.err
                              /\ ktrace' = <<KCall("fcntl", server_fd, k.ret)>>
                              /\ UNCHANGED <<fd_mapping, next_client_fd, live, dupsrc,
                                             nissued>>

\* syscall_prog_1 (generated dispatcher): one request at a time, by its tag
Serve(t) ==
    /\ UNCHANGED net
    /\ \/ syscall_open_1_svc(t)
       \/ syscall_openat_1_svc(t)
       \/ syscall_close_1_svc(t)
       \/ syscall_read_1_svc(t)
       \/ syscall_pread_1_svc(t)
       \/ syscall_write_1_svc(t)
       \/ syscall_pwrite_1_svc(t)
       \/ syscall_stat_1_svc(t)
       \/ syscall_newfstatat_1_svc(t)
       \/ syscall_fstat_1_svc(t)
       \/ syscall_fcntl_1_svc(t)
       \/ syscall_fdatasync_1_svc(t)

(***************************************************************************)
(* Requests a connected client sends (the records of the protocol, as the  *)
(* shim fills them in)                                                     *)
(***************************************************************************)
\* descriptors a client names: out of range (-1, 1024), never allocated (999),
\* and the ones open and F_DUPFD hand out
ClientFdInputs == {-1, 3, 4, 10, 999, 1024}
ProbeFdInputs == {-1, 3, 999, 1024}
MinFdInputs == {0, 10, 1023}
CountInputs == {3, 5}
TheFlock == [l_type |-> 1, l_whence |-> 0, l_start |-> 0, l_len |-> 0, l_pid |-> 0]

PathReq(op, path, creat) ==
    [NoReq EXCEPT !.op = op, !.path = path, !.creat = creat,
                  !.fd = IF op \in {"openat", "newfstatat"} THEN AT_FDCWD ELSE -1]
FdReq(op, fd, count) == [NoReq EXCEPT !.op = op, !.fd = fd, !.count = count]
FcntlReq(fd, cmd, iarg) ==
    [NoReq EXCEPT !.op = "fcntl", !.fd = fd, !.cmd = cmd,
                  !.atype = get_fcntl_arg_type(cmd),
                  !.iarg = IF get_fcntl_arg_type(cmd) = "FCNTL_ARG_INT" THEN iarg ELSE 0,
                  !.flock = IF get_fcntl_arg_type(cmd) = "FCNTL_ARG_FLOCK"
                               THEN TheFlock ELSE NoFlock]

\* requests that name the descriptors of the target's stdio, and a dup with a
\* negative minimum
StdioRequests ==
    {FdReq("read", 0, 3), FdReq("write", 1, 3), FdReq("close", 2, 0), FdReq("fstat", 2, 0)}
    \cup {FcntlReq(3, "F_DUPFD", -1)}

Allocating(req) ==
    \/ req.op \in {"open", "openat"}
    \/ req.op = "fcntl" /\ req.cmd \in {"F_DUPFD", "F_DUPFD_CLOEXEC"}

Requests ==
    {PathReq("open", "/tmp/t.txt", c) : c \in BOOLEAN}
    \cup {PathReq("openat", "/tmp/t.txt", FALSE)}
    \cup {PathReq(op, "/tmp/nonexistent_abcdef", FALSE) : op \in {"open", "openat"}}
    \cup {PathReq(op, p, FALSE) : op \in {"stat", "newfstatat"}, p \in Paths}
    \cup {FdReq("close", fd, 0) : fd \in ClientFdInputs}
    \cup {FdReq(op, fd, 0) : op \in {"fstat", "fdatasync"}, fd \in ProbeFdInputs}
    \cup {FdReq("read", fd, n) : fd \in ProbeFdInputs, n \in CountInputs}
    \cup {FdReq("pread", fd, 5) : fd \in ProbeFdInputs}
    \cup {FdReq(op, fd, 3) : op \in {"write", "pwrite"}, fd \in ProbeFdInputs}
    \cup {FcntlReq(fd, "F_DUPFD", k) : fd \in ProbeFdInputs, k \in MinFdInputs}
    \cup {FcntlReq(fd, "F_DUPFD", 10) : fd \in ClientFdInputs}
    \cup {FcntlReq(fd, "F_DUPFD_CLOEXEC", 10) : fd \in {3, 999}}
    \cup {FcntlReq(fd, cmd, 0) : fd \in ProbeFdInputs,
              cmd \in {"F_GETFD", "F_SETFD", "F_GETLK", "F_SETLK"}}
    \cup StdioRequests

\* a client of the connection puts its next request on the wire
ClientRequest(t) ==
    /\ chan[t].st = "idle"
    /\ \E req \in Requests :
         /\ Allocating(req) => nissued < MaxIssued
         /\ chan' = [chan EXCEPT ![t] = [st |-> "req", req |-> req, res |-> NoRes]]
    /\ ktrace' = <<>>
    /\ h_server_fd' = -1
    /\ UNCHANGED <<srvstate, shimvars, net>>

\* the client takes the reply off the wire
ClientReceive(t) ==
    /\ chan[t].st = "resp"
    /\ chan' = [chan EXCEPT ![t] = IdleChan]
    /\ ktrace' = <<>>
    /\ h_server_fd' = -1
    /\ UNCHANGED <<srvstate, shimvars, net>>

Next ==
    \/ \E t \in Threads : ClientRequest(t)
    \/ \E t \in Threads : ClientReceive(t)
    \/ \E t \in Threads : Serve(t)

Spec == Init /\ [][Next]_vars

(***************************************************************************)
(* The shim (rpc_client.c, intercept_client.c, intercept/*.h) running in   *)
(* the target process.  rpc_client.c includes the open, close, read, write *)
(* and stat interceptors; the other headers have the same shape and are    *)
(* modelled as written.  The client's own kernel is the environment: a     *)
(* direct syscall succeeds or fails with an errno.                         *)
(***************************************************************************)
Symbols == {"open", "openat", "close", "read", "pread", "write", "pwrite", "stat",
            "fstat", "newfstatat", "fcntl", "fdatasync"}
\* calls the ONC RPC transport makes on the socket while creating the handle
\* or exchanging a call
TransportSymbols == {"read", "write", "close"}
\* descriptor numbers the client's kernel gives the shim's own sockets
LocalSockFds == {3, 4}
\* transport calls into the shim modelled per target call
MaxNested == 1
\* the target program stops asking for descriptors once this many were handed out
MaxTargetFds == 2
LocalOutcomes == {[ret |-> 0, err |-> 0], [ret |-> -1, err |-> EBADF]}
\* the lowest free descriptor of the target process (0, 1 and 2 are open)
LocalFd == 3
\* what the client's own kernel answers to the direct syscall of a call: open,
\* openat and F_DUPFD return a descriptor of the target process itself
LocalOutcomesOf(req) ==
    IF Allocating(req)
       THEN {[ret |-> IF k.ret = 0 THEN LocalFd ELSE k.ret, err |-> k.err] : k \in LocalOutcomes}
       ELSE LocalOutcomes

\* bytes of the file behind a descriptor of the client's own kernel
LocalBytes == <<76, 79>>
\* read(2) on the client's own kernel: some bytes, end of file, or an error
LocalReadOutcomes(count) ==
    {[ret |-> k.ret, err |-> k.err, data |-> <<>>] : k \in LocalOutcomes}
    \cup {[ret |-> IF count < Len(LocalBytes) THEN count ELSE Len(LocalBytes),
           err |-> 0,
           data |-> SubSeq(LocalBytes, 1,
                           IF count < Len(LocalBytes) THEN count ELSE Len(LocalBytes))]}

\* the syscall(SYS_..., ...) an interceptor issues on its bypass and on its
\* fallback path: the number and the arguments in the order passed
direct_syscall(req) ==
    CASE req.op = "open" -> [nr |-> "SYS_open", args |-> <<"pathname", "flags", "mode">>]
      [] req.op = "openat" ->
            [nr |-> "SYS_openat", args |-> <<"dirfd", "pathname", "flags", "mode">>]
      [] req.op = "close" -> [nr |-> "SYS_close", args |-> <<"fd">>]
      [] req.op = "read" -> [nr |-> "SYS_read", args |-> <<"fd", "buf", "count">>]
      [] req.op = "pread" ->
            [nr |-> "SYS_preadv", args |-> <<"fd", "buf", "count", "offset">>]
      [] req.op = "write" -> [nr |-> "SYS_write", args |-> <<"fd", "buf", "count">>]
      [] req.op = "pwrite" ->
            [nr |-> "SYS_pwrite64", args |-> <<"fd", "buf", "count", "offset">>]
      [] req.op = "stat" -> [nr |-> "SYS_stat", args |-> <<"pathname", "statbuf">>]
      [] req.op = "fstat" -> [nr |-> "SYS_fstat", args |-> <<"fd", "statbuf">>]
      [] req.op = "newfstatat" ->
            [nr |-> "SYS_newfstatat", args |-> <<"pathname", "statbuf">>]
      [] req.op = "fdatasync" -> [nr |-> "SYS_fdatasync", args |-> <<"fd">>]
      [] req.op = "fcntl" ->
            [nr |-> "SYS_fcntl",
             args |-> CASE req.atype = "FCNTL_ARG_INT" -> <<"fd", "cmd", "int_arg">>
                        [] req.atype = "FCNTL_ARG_FLOCK" -> <<"fd", "cmd", "flock_ptr">>
                        [] OTHER -> <<"fd", "cmd">>]

\* faulty variant: the two flags are shared by all threads of the process
is_rpc_in_progress_shared(t) ==
    \E u \in DOMAIN rpc_in_progress : rpc_in_progress[u] \/ in_rpc_init[u]
\* rpc_client.c: is_rpc_in_progress; both flags are __thread
is_rpc_in_progress(t) == rpc_in_progress[t] \/ in_rpc_init[t]

\* another thread is inside an exchange or the creation of its handle
OthersInRpc(t) ==
    \E u \in DOMAIN rpc_in_progress \ {t} : rpc_in_progress[u] \/ in_rpc_init[u]

\* the first test of every interceptor: TRUE when the call goes straight to
\* the kernel.  intercept_read.h tests only its own guard.
takes_direct_path(t, sym) ==
    IF sym = "read"
       THEN "read" \in in_intercept[t]
       ELSE sym \in in_intercept[t] \/ is_rpc_in_progress(t)

Top(t) == stack[t][Len(stack[t])]
Below(t) == SubSeq(stack[t], 1, Len(stack[t]) - 1)
AtPc(t, pc) == stack[t] # <<>> /\ Top(t).pc = pc
SetPc(t, pc) == Append(Below(t), [Top(t) EXCEPT !.pc = pc])
ErrnoAfter(t, k) == IF k.ret < 0 THEN k.err ELSE c_errno[t]
Ret(req, result, errno, via) == [req |-> req, result |-> result, errno |-> errno, via |-> via]

\* a call of an interposed symbol arrives; stk is the caller's stack.
\* Sets in_intercept, stack, c_errno, c_ret, last_entry and ksys.
Enter(t, req, origin, stk) ==
    /\ last_entry' = [last_entry EXCEPT ![t] =
                         [sym |-> req.op, in_rpc |-> is_rpc_in_progress(t),
                          path |-> IF takes_direct_path(t, req.op) THEN "direct" ELSE "body",
                          others |-> OthersInRpc(t)]]
    /\ IF takes_direct_path(t, req.op)
          THEN \E k \in LocalOutcomesOf(req) :
                  /\ c_errno' = [c_errno EXCEPT ![t] = ErrnoAfter(t, k)]
                  /\ c_ret' = [c_ret EXCEPT ![t] = Ret(req, k.ret, ErrnoAfter(t, k), "direct")]
                  /\ stack' = [stack EXCEPT ![t] = stk]
                  /\ ksys' = [ksys EXCEPT ![t] = direct_syscall(req)]
                  /\ UNCHANGED in_intercept
          ELSE /\ in_intercept' = [in_intercept EXCEPT ![t] = @ \cup {req.op}]
               /\ ksys' = [ksys EXCEPT ![t] = NoSys]
               /\ stack' = [stack EXCEPT ![t] =
                              Append(stk, [req |-> req, origin |-> origin,
                                           pc |-> IF req.op = "read" THEN "rd_connect"
                                                                      ELSE "get_client"])]
               /\ c_ret' = [c_ret EXCEPT ![t] = NoRet]
               /\ UNCHANGED c_errno

\* faulty variant: the guard is left set when the interceptor returns
guard_clear_skipped(guards, sym) == guards
\* in_<symbol>_intercept = 0
guard_clear(guards, sym) == guards \ {sym}

\* the innermost interceptor clears its guard and returns
Leave(t, result, errno, via) ==
    /\ in_intercept' = [in_intercept EXCEPT ![t] = guard_clear(@, Top(t).req.op)]
    /\ stack' = [stack EXCEPT ![t] = Below(t)]
    /\ c_errno' = [c_errno EXCEPT ![t] = errno]
    /\ c_ret' = [c_ret EXCEPT ![t] = Ret(Top(t).req, result, errno, via)]

\* calls the target program makes
TargetCalls ==
    {PathReq("open", "/tmp/t.txt", FALSE), PathReq("openat", "/tmp/t.txt", FALSE)}
    \cup {PathReq(op, p, FALSE) : op \in {"stat", "newfstatat"}, p \in Paths}
    \cup {FdReq(op, fd, 0) : op \in {"close", "fstat", "fdatasync"}, fd \in {3, 999}}
    \cup {FdReq(op, fd, 3) : op \in {"read", "pread", "write", "pwrite"}, fd \in {3, 999}}
    \cup {FcntlReq(fd, "F_DUPFD", 10) : fd \in {3, 999}}
    \cup {FcntlReq(fd, "F_GETFD", 0) : fd \in {3, 999}}

\* the target calls one of calls; fds: the descriptors it holds at the call
TargetCallWith(t, calls, fds) ==
    /\ ~exited /\ stack[t] = <<>> /\ chan[t].st = "idle"
    /\ \E req \in calls :
         /\ Allocating(req) => nissued < MaxTargetFds
         /\ Enter(t, req, "target", <<>>)
         /\ c_out' = [c_out EXCEPT ![t] = InitOut(req)]
    /\ nnested' = [nnested EXCEPT ![t] = 0]
    /\ c_buf' = [c_buf EXCEPT ![t] = InitBuf]
    /\ c_fds' = fds
    /\ UNCHANGED <<srvstate, chan, ktrace, h_server_fd, rpc_in_progress, in_rpc_init,
                   rpc_client, exited, lifevars, o_call, net>>

TargetCallOf(t, calls) == TargetCallWith(t, calls, c_fds)

TargetCall(t) == TargetCallOf(t, TargetCalls)

\* the interceptor sets rpc_in_progress and calls the stub syscall_<op>_1
StartExchange(t) ==
    /\ rpc_in_progress' = [rpc_in_progress EXCEPT ![t] = TRUE]
    /\ chan' = [chan EXCEPT ![t] = [st |-> "req", req |-> Top(t).req, res |-> NoRes]]
    /\ stack' = [stack EXCEPT ![t] = SetPc(t, "wait")]
    /\ ktrace' = <<>>
    /\ h_server_fd' = -1

\* rpc_client.c: get_rpc_client up to the creation of the transport
GetClient(t) ==
    /\ AtPc(t, "get_client")
    /\ IF rpc_client[t] # "NULL"
          THEN StartExchange(t) /\ UNCHANGED in_rpc_init
          ELSE IF in_rpc_init[t]
                  THEN /\ stack' = [stack EXCEPT ![t] = SetPc(t, "fallback")]
                       /\ UNCHANGED <<rpc_in_progress, in_rpc_init, chan, ktrace, h_server_fd>>
                  ELSE /\ in_rpc_init' = [in_rpc_init EXCEPT ![t] = TRUE]
                       /\ rpc_in_progress' = [rpc_in_progress EXCEPT ![t] = TRUE]
                       /\ stack' = [stack EXCEPT ![t] = SetPc(t, "init")]
                       /\ UNCHANGED <<chan, ktrace, h_server_fd>>
    /\ UNCHANGED <<srvstate, in_intercept, rpc_client, c_errno, c_ret, last_entry,
                   exited, nnested, outvars, lifevars, o_call, net>>

\* rpc_client.c: get_rpc_client from the creation of the transport to its return
InitDone(t) ==
    /\ AtPc(t, "init")
    /\ \E ok \in BOOLEAN :
         /\ rpc_client' = [rpc_client EXCEPT ![t] = IF ok THEN "HANDLE" ELSE "NULL"]
         /\ stack' = [stack EXCEPT ![t] = SetPc(t, IF ok THEN "call" ELSE "fallback")]
         /\ hlife' = [hlife EXCEPT ![t] =
                         IF ok THEN [@ EXCEPT !.created = @ + 1]
                               ELSE [@ EXCEPT !.failed = TRUE]]
    /\ in_rpc_init' = [in_rpc_init EXCEPT ![t] = FALSE]
    /\ rpc_in_progress' = [rpc_in_progress EXCEPT ![t] = FALSE]
    /\ UNCHANGED <<srvstate, chan, ktrace, h_server_fd, in_intercept, c_errno, c_ret,
                   last_entry, exited, nnested, outvars, torn, o_call, net>>

\* the interceptor got a handle from the initialisation and starts the exchange
CallRpc(t) ==
    /\ AtPc(t, "call")
    /\ StartExchange(t)
    /\ UNCHANGED <<srvstate, in_intercept, in_rpc_init, rpc_client, c_errno, c_ret,
                   last_entry, exited, nnested, outvars, lifevars, o_call, net>>

StatOps == {"stat", "fstat", "newfstatat"}
\* what the client's own kernel puts into a stat buffer
LocalStat == StatBuf([FileStat EXCEPT !.ino = 99, !.size = Len(LocalBytes)], 1)

\* the direct syscall of the fallback path got the caller's pointers: on success
\* the client's own kernel fills the stat buffer, and F_GETLK rewrites the flock
\* (no lock is held on the local file: l_type becomes F_UNLCK = 2)
local_out(req, ret, out) ==
    IF ret < 0 THEN out
    ELSE IF req.op \in StatOps THEN [out EXCEPT !.st = LocalStat]
    ELSE IF req.op = "fcntl" /\ req.cmd = "F_GETLK"
            THEN [out EXCEPT !.flock = [@ EXCEPT !.l_type = 2]]
    ELSE out

\* no handle: the interceptor falls back to the direct syscall
Fallback(t) ==
    /\ AtPc(t, "fallback")
    /\ \E k \in LocalOutcomesOf(Top(t).req) :
         /\ Leave(t, k.ret, ErrnoAfter(t, k), "fallback")
         /\ c_out' = IF Top(t).origin = "target"
                     THEN [c_out EXCEPT ![t] = local_out(Top(t).req, k.ret, @)]
                     ELSE c_out
    /\ ksys' = [ksys EXCEPT ![t] = direct_syscall(Top(t).req)]
    /\ UNCHANGED <<srvstate, chan, ktrace, h_server_fd, rpc_in_progress, in_rpc_init,
                   rpc_client, last_entry, exited, nnested, c_buf, c_fds, lifevars, o_call, net>>

\* memcpy(buf, src, n): the first n bytes of buf become those of src
memcpy(buf, src, n) == [i \in 1..Len(buf) |-> IF i <= n THEN src[i] ELSE buf[i]]

\* intercept_pread.h: the reply's payload is copied into the caller's buffer
pread_gather(buf, res, count) ==
    IF res.result > 0 /\ Len(res.data) > 0
    THEN memcpy(buf, res.data, IF Len(res.data) < count THEN Len(res.data) ELSE count)
    ELSE buf

\* faulty variant: the buffer is zeroed and filled whatever the result
stat_fill_always(buf, res) == StatBuf(res.st, 0)
\* if (result >= 0) { memset(statbuf, 0, sizeof(struct stat)); statbuf->st_dev =
\* res->dev; ... statbuf->st_ctime = res->ctime; }
stat_fill(buf, res) == IF res.result >= 0 THEN StatBuf(res.st, 0) ELSE buf

\* faulty variant: the reply's flock is copied for every F_GETLK reply
getlk_copy_unchecked(cmd, res, flock) == IF cmd = "F_GETLK" THEN res.arg_out.flock ELSE flock
\* if (cmd == F_GETLK && flock_ptr != NULL && result >= 0)
\*     if (res->arg_out.type == FCNTL_ARG_FLOCK) copy the five fields
getlk_copy(cmd, res, flock) ==
    IF cmd = "F_GETLK" /\ res.result >= 0 /\ res.arg_out.type = "FCNTL_ARG_FLOCK"
       THEN res.arg_out.flock
       ELSE flock

\* what the interceptor writes through the caller's pointers after a reply
rpc_out(req, res, out) ==
    IF req.op \in StatOps THEN [out EXCEPT !.st = stat_fill(@, res)]
    ELSE IF req.op = "fcntl" THEN [out EXCEPT !.flock = getlk_copy(req.cmd, res, @)]
    ELSE out

\* the stub returned a reply: result = res->result; errno = res->err
ShimReceive(t) ==
    /\ AtPc(t, "wait") /\ chan[t].st = "resp"
    /\ rpc_in_progress' = [rpc_in_progress EXCEPT ![t] = FALSE]
    /\ Leave(t, chan[t].res.result, chan[t].res.err, "rpc")
    /\ chan' = [chan EXCEPT ![t] = IdleChan]
    /\ c_buf' = IF Top(t).req.op = "pread" /\ Top(t).origin = "target"
                THEN [c_buf EXCEPT ![t] = pread_gather(@, chan[t].res, Top(t).req.count)]
                ELSE c_buf
    /\ c_out' = IF Top(t).origin = "target"
                THEN [c_out EXCEPT ![t] = rpc_out(Top(t).req, chan[t].res, @)]
                ELSE c_out
    /\ UNCHANGED <<srvstate, ktrace, h_server_fd, in_rpc_init, rpc_client, last_entry,
                   exited, nnested, ksys, c_fds, lifevars, o_call, net>>

\* faulty variant: a NULL reply is answered by the local kernel
null_reply_local(k) == [result |-> k.ret, err |-> k.err, local |-> TRUE]
\* the branch taken when the stub returns NULL: errno = EIO; result = -1,
\* and no syscall on the local kernel
null_reply(k) == [result |-> -1, err |-> EIO, local |-> FALSE]

\* faulty variant: the interceptor calls the stub again after a NULL reply
null_reply_retries(o) == FALSE
\* after a NULL reply the interceptor clears its guard and returns: no retry
null_reply_returns(o) == TRUE

\* the stub returned NULL
RpcFail(t) ==
    /\ AtPc(t, "wait")
    /\ rpc_in_progress' = [rpc_in_progress EXCEPT ![t] = FALSE]
    /\ \E k \in LocalOutcomes :
         LET o == null_reply(k) IN
           /\ IF null_reply_returns(o)
                 THEN Leave(t, o.result, IF o.local THEN ErrnoAfter(t, k) ELSE o.err, "eio")
                 ELSE /\ stack' = [stack EXCEPT ![t] = SetPc(t, "call")]
                      /\ UNCHANGED <<in_intercept, c_errno, c_ret>>
           /\ ksys' = IF o.local THEN [ksys EXCEPT ![t] = direct_syscall(Top(t).req)]
                      ELSE ksys
    /\ chan' = [chan EXCEPT ![t] = IdleChan]
    /\ UNCHANGED <<srvstate, ktrace, h_server_fd, in_rpc_init, rpc_client, last_entry,
                   exited, nnested, c_buf, c_out, c_fds, lifevars, o_call, net>>

\* the transport calls read, write or close while the handle is created or a
\* call is exchanged; the call resolves to the interposed symbol
TransportCall(t) ==
    /\ (AtPc(t, "init") \/ AtPc(t, "wait"))
    /\ nnested[t] < MaxNested
    /\ \E sym \in TransportSymbols, fd \in LocalSockFds :
         Enter(t, FdReq(sym, fd, IF sym = "close" THEN 0 ELSE 3), "transport", stack[t])
    /\ nnested' = [nnested EXCEPT ![t] = @ + 1]
    /\ UNCHANGED <<srvstate, chan, ktrace, h_server_fd, rpc_in_progress, in_rpc_init,
                   rpc_client, exited, c_buf, c_out, c_fds, lifevars, o_call, net>>

\* intercept_read.h body: connect_to_sock_and_send_msg up to its close(sock);
\* close is the interposed symbol.  A failed connect ends in exit(1).
ReadConnect(t) ==
    /\ AtPc(t, "rd_connect")
    /\ \E ok \in BOOLEAN, sock \in LocalSockFds :
         Enter(t, FdReq("close", sock, 0), "shim", SetPc(t, IF ok THEN "rd_log" ELSE "rd_exit"))
    /\ UNCHANGED <<srvstate, chan, ktrace, h_server_fd, rpc_in_progress, in_rpc_init,
                   rpc_client, exited, nnested, c_buf, c_out, c_fds, lifevars, o_call, net>>

\* intercept_client.c: exit(1) after the failed connect
ReadExit(t) ==
    /\ AtPc(t, "rd_exit") /\ ~exited
    /\ exited' = TRUE
    /\ torn' = [torn EXCEPT !.by = t]
    /\ UNCHANGED <<srvstate, chan, ktrace, h_server_fd, in_intercept, rpc_in_progress,
                   in_rpc_init, rpc_client, c_errno, stack, c_ret, last_entry, nnested,
                   outvars, hlife, o_call, net>>

\* intercept_read.h body: write(STDERR_FILENO, payload, mlen) through the
\* interposed write
ReadLog(t) ==
    /\ AtPc(t, "rd_log")
    /\ Enter(t, FdReq("write", 2, 3), "shim", SetPc(t, "rd_sysread"))
    /\ UNCHANGED <<srvstate, chan, ktrace, h_server_fd, rpc_in_progress, in_rpc_init,
                   rpc_client, exited, nnested, c_buf, c_out, c_fds, lifevars, o_call, net>>

\* intercept_read.h body: syscall(SYS_read, ...) and return
ReadSys(t) ==
    /\ AtPc(t, "rd_sysread")
    /\ \E k \in LocalReadOutcomes(Top(t).req.count) :
         /\ Leave(t, k.ret, ErrnoAfter(t, k), "local")
         /\ c_buf' = IF Top(t).origin = "target" /\ k.ret > 0
                     THEN [c_buf EXCEPT ![t] = memcpy(@, k.data, k.ret)]
                     ELSE c_buf
    /\ ksys' = [ksys EXCEPT ![t] = direct_syscall(Top(t).req)]
    /\ UNCHANGED <<srvstate, chan, ktrace, h_server_fd, rpc_in_progress, in_rpc_init,
                   rpc_client, last_entry, exited, nnested, c_out, c_fds, lifevars, o_call, net>>

\* the requests the interceptors send; no interceptor sends a read request
ShimServe(t) ==
    /\ UNCHANGED net
    /\ \/ syscall_open_1_svc(t)
       \/ syscall_openat_1_svc(t)
       \/ syscall_close_1_svc(t)
       \/ syscall_pread_1_svc(t)
       \/ syscall_write_1_svc(t)
       \/ syscall_pwrite_1_svc(t)
       \/ syscall_stat_1_svc(t)
       \/ syscall_newfstatat_1_svc(t)
       \/ syscall_fstat_1_svc(t)
       \/ syscall_fcntl_1_svc(t)
       \/ syscall_fdatasync_1_svc(t)

ShimNext ==
    \/ \E t \in Threads : TargetCall(t)
    \/ \E t \in Threads : GetClient(t)
    \/ \E t \in Threads : InitDone(t)
    \/ \E t \in Threads : CallRpc(t)
    \/ \E t \in Threads : Fallback(t)
    \/ \E t \in Threads : ShimReceive(t)
    \/ \E t \in Threads : RpcFail(t)
    \/ \E t \in Threads : TransportCall(t)
    \/ \E t \in Threads : ReadConnect(t)
    \/ \E t \in Threads : ReadExit(t)
    \/ \E t \in Threads : ReadLog(t)
    \/ \E t \in Threads : ReadSys(t)
    \/ \E t \in Threads : ShimServe(t)

ShimSpec == Init /\ [][ShimNext]_vars

(***************************************************************************)
(* The life of the per-thread handle: creation in get_rpc_client, and the  *)
(* destructor cleanup_rpc_client run by the thread that ends the process.  *)
(***************************************************************************)
LifeThreads == {"t1", "t2"}
LifeCalls == {FdReq("close", 3, 0), FdReq("read", 3, 3)}
HasFrame(t, origin) == \E i \in 1..Len(stack[t]) : stack[t][i].origin = origin

LifeCall(t) == TargetCallOf(t, LifeCalls)

\* the target calls exit or returns from main
ExitCall(t) ==
    /\ ~exited /\ stack[t] = <<>> /\ chan[t].st = "idle"
    /\ exited' = TRUE
    /\ torn' = [torn EXCEPT !.by = t]
    /\ UNCHANGED <<srvstate, chan, ktrace, h_server_fd, in_intercept, rpc_in_progress,
                   in_rpc_init, rpc_client, c_errno, stack, c_ret, last_entry, nnested,
                   outvars, hlife, o_call, net>>

\* cleanup_rpc_client, on the thread that ends the process: the test of
\* rpc_client and the call of clnt_destroy
TeardownBegin(t) ==
    /\ exited /\ torn = [st |-> "no", by |-> t]
    /\ torn' = [torn EXCEPT !.st = IF rpc_client[t] # "NULL" THEN "destroying" ELSE "done"]
    /\ UNCHANGED <<srvstate, chan, ktrace, h_server_fd, in_intercept, rpc_in_progress,
                   in_rpc_init, rpc_client, c_errno, stack, c_ret, last_entry, exited,
                   nnested, outvars, hlife, o_call, net>>

\* clnt_destroy closes the connection's socket; close resolves to the
\* interposed symbol, and cleanup_rpc_client has set no flag
TeardownClose(t) ==
    /\ torn = [st |-> "destroying", by |-> t]
    /\ \E sock \in LocalSockFds : Enter(t, FdReq("close", sock, 0), "teardown", stack[t])
    /\ torn' = [torn EXCEPT !.st = "closing"]
    /\ UNCHANGED <<srvstate, chan, ktrace, h_server_fd, rpc_in_progress, in_rpc_init,
                   rpc_client, exited, nnested, c_buf, c_out, c_fds, hlife, o_call, net>>

\* clnt_destroy has returned: rpc_client = NULL
TeardownEnd(t) ==
    /\ torn.by = t /\ torn.st \in {"destroying", "closing"}
    /\ ~HasFrame(t, "teardown")
    /\ rpc_client' = [rpc_client EXCEPT ![t] = "NULL"]
    /\ hlife' = [hlife EXCEPT ![t].destroyed = @ + 1]
    /\ torn' = [torn EXCEPT !.st = "done"]
    /\ UNCHANGED <<srvstate, chan, ktrace, h_server_fd, in_intercept, rpc_in_progress,
                   in_rpc_init, c_errno, stack, c_ret, last_entry, exited, nnested,
                   outvars, o_call, net>>

\* code that runs after cleanup_rpc_client (a destructor or exit handler that
\* comes later) calls an interposed symbol
LateCall(t) ==
    /\ torn = [st |-> "done", by |-> t]
    /\ ~HasFrame(t, "late") /\ chan[t].st = "idle"
    /\ Enter(t, FdReq("close", 3, 0), "late", stack[t])
    /\ UNCHANGED <<srvstate, chan, ktrace, h_server_fd, rpc_in_progress, in_rpc_init,
                   rpc_client, exited, nnested, c_buf, c_out, c_fds, lifevars, o_call, net>>

\* the requests the calls of this specification send
LifeServe(t) ==
    /\ UNCHANGED net
    /\ \/ syscall_close_1_svc(t)
       \/ syscall_write_1_svc(t)

LifeNext ==
    \/ \E t \in LifeThreads : LifeCall(t)
    \/ \E t \in LifeThreads : ExitCall(t)
    \/ \E t \in LifeThreads : TeardownBegin(t)
    \/ \E t \in LifeThreads : TeardownClose(t)
    \/ \E t \in LifeThreads : TeardownEnd(t)
    \/ \E t \in LifeThreads : LateCall(t)
    \/ \E t \in LifeThreads : GetClient(t)
    \/ \E t \in LifeThreads : InitDone(t)
    \/ \E t \in LifeThreads : CallRpc(t)
    \/ \E t \in LifeThreads : Fallback(t)
    \/ \E t \in LifeThreads : ShimReceive(t)
    \/ \E t \in LifeThreads : RpcFail(t)
    \/ \E t \in LifeThreads : ReadConnect(t)
    \/ \E t \in LifeThreads : ReadExit(t)
    \/ \E t \in LifeThreads : ReadLog(t)
    \/ \E t \in LifeThreads : ReadSys(t)
    \/ \E t \in LifeThreads : LifeServe(t)

LifeSpec == InitOf(LifeThreads) /\ [][LifeNext]_vars

(***************************************************************************)
(* The mode argument of open, open64 and openat (intercept_open.h,         *)
(* intercept_openat.h): the entry code of the three symbols as a function  *)
(* of the caller's arguments.                                              *)
(***************************************************************************)
O_CREAT == 64
O_TMPFILE == 4259840
O_LARGEFILE == 32768

RECURSIVE BitAnd(_, _)
\* a & b on non-negative integers
BitAnd(a, b) ==
    IF a = 0 \/ b = 0 THEN 0
    ELSE (a % 2) * (b % 2) + 2 * BitAnd(a \div 2, b \div 2)
\* a | b
BitOr(a, b) == a + b - BitAnd(a, b)

\* flags the target passes: access modes alone and with O_CREAT, O_TRUNC,
\* O_APPEND, O_DIRECTORY, O_CLOEXEC, O_TMPFILE
FlagInputs == {0, 1, 2, 64, 65, 66, 577, 1089, 65536, 524288, 4259842}
ModeInputs == {0, 384, 420}

\* faulty variant: only O_CREAT makes the interceptor read the mode
open_mode_creat_only(flags, has_va, va) ==
    IF BitAnd(flags, O_CREAT) # 0
    THEN IF has_va THEN {[mode |-> va, va_read |-> TRUE]}
                   ELSE {[mode |-> g, va_read |-> TRUE] : g \in ModeInputs}
    ELSE {[mode |-> 0, va_read |-> FALSE]}
\* mode_t mode = 0; if (flags & (O_CREAT | O_TMPFILE)) mode = va_arg(args, mode_t).
\* va_arg without an argument passed yields an arbitrary value.
open_mode(flags, has_va, va) ==
    IF BitAnd(flags, BitOr(O_CREAT, O_TMPFILE)) # 0
    THEN IF has_va THEN {[mode |-> va, va_read |-> TRUE]}
                   ELSE {[mode |-> g, va_read |-> TRUE] : g \in ModeInputs}
    ELSE {[mode |-> 0, va_read |-> FALSE]}

\* open and openat: the flags and mode that go into the request and into the
\* direct syscall
open_entry(flags, has_va, va) ==
    {[fwd_flags |-> flags, mode |-> m.mode, va_read |-> m.va_read] :
        m \in open_mode(flags, has_va, va)}

\* open64: reads its own mode, then return open(pathname, flags | O_LARGEFILE, mode)
open64_entry(flags, has_va, va) ==
    UNION {{[fwd_flags |-> i.fwd_flags, mode |-> i.mode, va_read |-> o.va_read] :
              i \in open_entry(BitOr(flags, O_LARGEFILE), TRUE, o.mode)} :
           o \in open_mode(flags, has_va, va)}

\* the target calls open, open64 or openat; via: the mode goes into the RPC
\* request or into the direct syscall
OpenCall ==
    /\ \E sym \in {"open", "open64", "openat"}, flags \in FlagInputs,
          has_va \in BOOLEAN, va \in ModeInputs, via \in {"rpc", "direct"} :
         /\ has_va \/ va = 0
         /\ \E e \in IF sym = "open64" THEN open64_entry(flags, has_va, va)
                                       ELSE open_entry(flags, has_va, va) :
              o_call' = [sym |-> sym, flags |-> flags, has_va |-> has_va, va |-> va,
                         via |-> via, fwd_flags |-> e.fwd_flags, mode |-> e.mode,
                         va_read |-> e.va_read]
    /\ UNCHANGED <<svars, chan, in_intercept, rpc_in_progress, in_rpc_init, rpc_client,
                   c_errno, stack, c_ret, last_entry, exited, nnested, outvars, lifevars,
                   net>>

ModeNext == OpenCall

ModeSpec == Init /\ [][ModeNext]_vars

(***************************************************************************)
(* The server's sockets and its dispatch loop (rpc_server.c main, svc_run, *)
(* the handlers' static response records)                                  *)
(***************************************************************************)
\* each client thread connects with a handle of its own (rpc_client.c)
Conns == {"t1", "t2"}
Transports == {"unix", "tcp"}
\* opens the connections issue between them
MaxConnOpens == 1
ConnOps == {"open", "close", "read", "pread"}
ConnRequests ==
    {PathReq("open", "/tmp/t.txt", FALSE), FdReq("close", 3, 0),
     FdReq("read", 3, 3), FdReq("pread", 3, 5)}

\* UNIX: main accepts once and closes listen_sock; TCP: the transport made by
\* svctcp_create(RPC_ANYSOCK) stays registered and svc_run accepts on it
listening_after_accept(tr) == tr = "tcp"

\* a client connects and the server accepts the connection
Accept(c) ==
    /\ net.listening
    /\ c \notin net.accepted
    /\ net' = [net EXCEPT !.accepted = @ \cup {c}, !.open = @ \cup {c},
                          !.listening = listening_after_accept(net.transport)]
    /\ UNCHANGED <<svars, chan, shimvars>>

\* a client with no call outstanding closes its connection
Disconnect(c) ==
    /\ c \in net.open
    /\ chan[c].st = "idle"
    /\ net' = [net EXCEPT !.open = @ \ {c}]
    /\ UNCHANGED <<svars, chan, shimvars>>

\* a client's request arrives on its connection
ConnRequest(c) ==
    /\ c \in net.open
    /\ chan[c].st = "idle"
    /\ \E req \in ConnRequests :
         /\ Allocating(req) => nissued < MaxConnOpens
         /\ chan' = [chan EXCEPT ![c] = [st |-> "req", req |-> req, res |-> NoRes]]
    /\ net' = [net EXCEPT !.arrq = Append(@, c)]
    /\ ktrace' = <<>>
    /\ h_server_fd' = -1
    /\ UNCHANGED <<srvstate, shimvars>>

\* faulty variant: a request is dispatched while the last reply is unsent
server_idle_always(n) == TRUE
\* svc_run is one thread: it is back in poll only when the dispatcher returned
server_idle(n) == n.busy = "none"

\* svc_run takes a connection that poll reports readable (any of them, in the
\* order of its descriptor array), the dispatcher decodes the request and calls
\* the handler, which fills its static record and returns its address
ConnServe(c) ==
    /\ server_idle(net)
    /\ \E i \in 1..Len(net.arrq) : net.arrq[i] = c
    /\ \/ syscall_open_1_svc(c)
       \/ syscall_close_1_svc(c)
       \/ syscall_read_1_svc(c)
       \/ syscall_pread_1_svc(c)
    /\ net' = [net EXCEPT !.busy = c,
                          !.arrq = SelectSeq(@, LAMBDA x : x # c),
                          !.sres[chan[c].req.op] = chan'[c].res]

\* svc_sendreply: the dispatcher serialises the static record onto the connection
SendReply(c) ==
    /\ net.busy = c
    /\ net' = [net EXCEPT !.busy = "none",
                          !.wire[c] = [full |-> TRUE, res |-> net.sres[chan[c].req.op]]]
    /\ UNCHANGED <<svars, chan, shimvars>>

\* the client takes the reply off its connection
ConnReceive(c) ==
    /\ net.wire[c].full
    /\ chan' = [chan EXCEPT ![c] = IdleChan]
    /\ net' = [net EXCEPT !.wire[c] = NoWire]
    /\ ktrace' = <<>>
    /\ h_server_fd' = -1
    /\ UNCHANGED <<srvstate, shimvars>>

ConnInit == \E tr \in Transports : InitState(Conns, NetOf(tr, Conns, ConnOps))

ConnNext ==
    \/ \E c \in Conns : Accept(c)
    \/ \E c \in Conns : Disconnect(c)
    \/ \E c \in Conns : ConnRequest(c)
    \/ \E c \in Conns : ConnServe(c)
    \/ \E c \in Conns : SendReply(c)
    \/ \E c \in Conns : ConnReceive(c)

ConnSpec == ConnInit /\ [][ConnNext]_vars


(***************************************************************************)
(* What the interceptors write through the caller's pointers: the stat     *)
(* buffer of stat, fstat and newfstatat and the flock record of fcntl      *)
(***************************************************************************)
OutCalls ==
    {PathReq("open", "/tmp/t.txt", FALSE)}
    \cup {PathReq(op, p, FALSE) : op \in {"stat", "newfstatat"}, p \in Paths}
    \cup {FdReq("fstat", fd, 0) : fd \in {3, 999}}
    \cup {FcntlReq(fd, cmd, 0) : fd \in {3, 999}, cmd \in {"F_GETLK", "F_SETLK", "F_SETLKW"}}

OutCall(t) == TargetCallOf(t, OutCalls)

\* the requests the calls of this specification send
OutServe(t) ==
    /\ UNCHANGED net
    /\ \/ syscall_open_1_svc(t)
       \/ syscall_stat_1_svc(t)
       \/ syscall_newfstatat_1_svc(t)
       \/ syscall_fstat_1_svc(t)
       \/ syscall_fcntl_1_svc(t)

OutNext ==
    \/ \E t \in Threads : OutCall(t)
    \/ \E t \in Threads : GetClient(t)
    \/ \E t \in Threads : InitDone(t)
    \/ \E t \in Threads : CallRpc(t)
    \/ \E t \in Threads : Fallback(t)
    \/ \E t \in Threads : ShimReceive(t)
    \/ \E t \in Threads : RpcFail(t)
    \/ \E t \in Threads : OutServe(t)

OutSpec == Init /\ [][OutNext]_vars

(***************************************************************************)
(* The server drops the connection of a thread that holds a handle         *)
(***************************************************************************)
DropCalls ==
    {PathReq("open", "/tmp/t.txt", FALSE), FdReq("close", 3, 0), FdReq("write", 3, 3),
     FdReq("read", 3, 3), PathReq("stat", "/tmp/t.txt", FALSE)}

DropCall(t) == TargetCallOf(t, DropCalls)

\* the server closes the connection of thread t (codec error, server exit); the
\* client's handle is not told
ServerDrop(t) ==
    /\ t \in net.open
    /\ rpc_client[t] = "HANDLE"
    /\ net' = [net EXCEPT !.open = @ \ {t}]
    /\ UNCHANGED <<svars, chan, shimvars>>

\* requests reach the handlers only over an open connection
DropServe(t) ==
    /\ t \in net.open
    /\ UNCHANGED net
    /\ \/ syscall_open_1_svc(t)
       \/ syscall_close_1_svc(t)
       \/ syscall_write_1_svc(t)
       \/ syscall_stat_1_svc(t)

\* every thread's connection counts as open until the server drops it
DropInit ==
    InitState(Threads, [NetOf("unix", Threads, {}) EXCEPT !.listening = FALSE,
                                                        !.accepted = Threads,
                                                        !.open = Threads])

DropNext ==
    \/ \E t \in Threads : DropCall(t)
    \/ \E t \in Threads : GetClient(t)
    \/ \E t \in Threads : InitDone(t)
    \/ \E t \in Threads : CallRpc(t)
    \/ \E t \in Threads : Fallback(t)
    \/ \E t \in Threads : ShimReceive(t)
    \/ \E t \in Threads : RpcFail(t)
    \/ \E t \in Threads : ReadConnect(t)
    \/ \E t \in Threads : ReadExit(t)
    \/ \E t \in Threads : ReadLog(t)
    \/ \E t \in Threads : ReadSys(t)
    \/ \E t \in Threads : ServerDrop(t)
    \/ \E t \in Threads : DropServe(t)

DropSpec == DropInit /\ [][DropNext]_vars

\* the interceptors' own steps always go on (they do not suspend), and a request
\* on the wire is eventually answered or the stub eventually returns NULL
LiveSpec ==
    /\ DropSpec
    /\ \A t \in Threads :
          /\ WF_vars(GetClient(t)) /\ WF_vars(InitDone(t)) /\ WF_vars(CallRpc(t))
          /\ WF_vars(Fallback(t)) /\ WF_vars(ShimReceive(t))
          /\ WF_vars(ReadConnect(t)) /\ WF_vars(ReadExit(t))
          /\ WF_vars(ReadLog(t)) /\ WF_vars(ReadSys(t))
          /\ WF_vars(DropServe(t) \/ RpcFail(t))

(***************************************************************************)
(* Properties                                                              *)
(***************************************************************************)
Slots == 0..(MAX_FDS - 1)
DupCmds == {"F_DUPFD", "F_DUPFD_CLOEXEC"}
Served(t, ops) == chan[t].st = "resp" /\ chan[t].req.op \in ops
\* the step in which the server serves a pending request of connection t
ServeStep(t, ops) == chan[t].st = "req" /\ chan[t].req.op \in ops /\ chan'[t].st = "resp"

\* C1: after any sequence of open, openat, F_DUPFD and close requests the table
\* holds a mapped entry (value # -1) exactly at the client descriptors that a
\* successful allocation returned and no successful close has freed; every other
\* entry, every successfully closed descriptor included, holds -1.
C1_TableMatchesLive ==
    /\ live \subseteq Slots
    /\ \A i \in Slots : (fd_mapping[i] # -1) <=> (i \in live)

C1_Witness ==
    /\ nissued = 3 /\ Cardinality(live) = 2
    /\ \E t \in Threads : Served(t, {"close"}) /\ chan[t].res.result = 0

\* C4 (as claimed): a handler that takes a client descriptor and finds it out of
\* range or unmapped makes no kernel call and replies result = -1, err = EBADF.
C4_InvalidFdNeverReachesKernel ==
    \A t \in Threads :
        (Served(t, FdOps) /\ h_server_fd < 0) =>
            /\ ktrace = <<>>
            /\ chan[t].res.result = -1
            /\ chan[t].res.err = EBADF

\* C5: a close request on a mapped client descriptor sets its entry to -1 if and
\* only if the kernel close on the server descriptor returned 0; when the kernel
\* close fails the entry keeps its server descriptor; no other entry changes.
C5_CloseFreesIffKernelOk ==
    [][\A t \in Threads :
         (ServeStep(t, {"close"}) /\ translate_fd(fd_mapping, chan[t].req.fd) >= 0) =>
            LET fd == chan[t].req.fd
            IN  /\ Len(ktrace') = 1
                /\ ktrace'[1].call = "close"
                /\ ktrace'[1].fd = fd_mapping[fd]
                /\ (fd_mapping'[fd] = -1) <=> (ktrace'[1].ret = 0)
                /\ (ktrace'[1].ret # 0) => (fd_mapping'[fd] = fd_mapping[fd])
                /\ fd_mapping' = [fd_mapping EXCEPT ![fd] = fd_mapping'[fd]]]_vars

C5_Witness ==
    \E t \in Threads :
        /\ Served(t, {"close"})
        /\ Len(ktrace) = 1 /\ ktrace[1].ret = -1
        /\ chan[t].res.err = EIO
        /\ fd_mapping[chan[t].req.fd] = h_server_fd
        /\ h_server_fd >= 0

\* C6: with the table full, an open or openat request whose kernel open
\* succeeded is answered result = -1, err = ENFILE, the descriptor just opened
\* is closed before the reply, and the set of open server descriptors (and the
\* table) is what it was before the request.
C6_FullTableOpen ==
    [][\A t \in Threads :
         (/\ ServeStep(t, {"open", "openat"})
          /\ next_client_fd >= MAX_FDS
          /\ ktrace'[1].ret >= 0) =>
            /\ chan'[t].res.result = -1
            /\ chan'[t].res.err = ENFILE
            /\ Len(ktrace') = 2
            /\ ktrace'[2].call = "close"
            /\ ktrace'[2].fd = ktrace'[1].ret
            /\ DOMAIN kfd' = DOMAIN kfd
            /\ fd_mapping' = fd_mapping
            /\ next_client_fd' = next_client_fd]_vars

C6_Witness ==
    \E t \in Threads :
        /\ Served(t, {"open", "openat"})
        /\ next_client_fd >= MAX_FDS
        /\ Len(ktrace) = 2 /\ ktrace[1].ret >= 0
        /\ chan[t].res.err = ENFILE

\* C7 (as claimed): after a successful F_DUPFD or F_DUPFD_CLOEXEC of a with
\* minimum k the returned b is >= k and b's entry holds the same server
\* descriptor as a's entry.
C7_DupSameServerDescriptor ==
    \A t \in Threads :
        (Served(t, {"fcntl"}) /\ chan[t].req.cmd \in DupCmds /\ chan[t].res.result >= 0) =>
            /\ chan[t].res.result >= chan[t].req.iarg
            /\ fd_mapping[chan[t].res.result] = fd_mapping[chan[t].req.fd]

\* C7 (amended): after a successful F_DUPFD or F_DUPFD_CLOEXEC of a with minimum
\* k the returned b is >= k, and b's entry holds the descriptor the server's
\* kernel returned for the duplication: a server descriptor different from a's
\* that refers to the same open file description as a's.
C7_DupSameOpenFile ==
    \A t \in Threads :
        (Served(t, {"fcntl"}) /\ chan[t].req.cmd \in DupCmds /\ chan[t].res.result >= 0) =>
            LET a == chan[t].req.fd
                b == chan[t].res.result
            IN  /\ b >= chan[t].req.iarg
                /\ b \in Slots /\ b # a
                /\ fd_mapping[b] = ktrace[1].ret
                /\ fd_mapping[b] # fd_mapping[a]
                /\ fd_mapping[a] \in DOMAIN kfd /\ fd_mapping[b] \in DOMAIN kfd
                /\ kfd[fd_mapping[b]] = kfd[fd_mapping[a]]

C7_Witness ==
    \E t \in Threads :
        /\ Served(t, {"fcntl"}) /\ chan[t].req.cmd = "F_DUPFD"
        /\ chan[t].req.iarg = 10 /\ chan[t].res.result = 10

ReplyStep(t) ==
    /\ AtPc(t, "wait") /\ chan[t].st = "resp"
    /\ chan'[t].st = "idle" /\ c_ret'[t].via = "rpc"

\* C2 (as claimed): when the exchange returns a reply for a request whose kernel
\* call on the server failed, the interposed symbol returns -1 and the caller's
\* errno is the errno of that kernel call.
C2_CallerErrnoIsKernelErrno ==
    [][\A t \in Threads :
         (ReplyStep(t) /\ Len(ktrace) = 1 /\ ktrace[1].ret = -1) =>
            /\ c_ret'[t].result = -1
            /\ c_ret'[t].errno = s_errno
            /\ c_errno'[t] = s_errno]_vars

\* C3 (as claimed): a call that enters an interposed symbol while the thread has
\* an exchange or the creation of the handle in progress goes straight to the
\* kernel and never runs the body of the interceptor.
C3_ReentryTakesDirectPath ==
    \A t \in Threads : last_entry[t].in_rpc => last_entry[t].path = "direct"

\* C9 (as claimed): stat of a path that does not exist, made through the
\* exchange, returns -1 with errno = ENOENT.
C9_StatMissingGivesENOENT ==
    \A t \in Threads :
        (/\ c_ret[t].via = "rpc" /\ c_ret[t].req.op = "stat"
         /\ c_ret[t].req.path = "/tmp/nonexistent_abcdef") =>
            /\ c_ret[t].result = -1
            /\ c_ret[t].errno = ENOENT

\* C10: fcntl made through the exchange on a client descriptor that is not
\* mapped: the server makes no kernel call and leaves the table alone, and the
\* caller gets -1 with errno = EBADF, whatever the command.
C10_FcntlUnmapped ==
    [][\A t \in Threads :
         /\ (ServeStep(t, {"fcntl"}) /\ translate_fd(fd_mapping, chan[t].req.fd) < 0) =>
               /\ fd_mapping' = fd_mapping
               /\ next_client_fd' = next_client_fd
               /\ ktrace' = <<>>
               /\ chan'[t].res.result = -1
               /\ chan'[t].res.err = EBADF
         /\ (ReplyStep(t) /\ chan[t].req.op = "fcntl" /\ h_server_fd < 0) =>
               /\ c_ret'[t].result = -1
               /\ c_ret'[t].errno = EBADF
               /\ c_errno'[t] = EBADF
               /\ fd_mapping' = fd_mapping]_vars

C10_Witness ==
    \E t \in Threads :
        /\ c_ret[t] = Ret(FcntlReq(999, "F_GETFD", 0), -1, EBADF, "rpc")
        /\ fd_mapping[999] = -1
        /\ ktrace = <<>>

\* the step in which the stub returns NULL to the interceptor of connection t:
\* the interceptor waiting for the reply returns without having taken a reply
NullReplyStep(t) ==
    /\ AtPc(t, "wait")
    /\ Len(stack'[t]) < Len(stack[t])
    /\ c_ret'[t].via # "rpc"

\* C11: when the handle exists and the exchange returns a null reply, the
\* interposed symbol returns -1 with errno = EIO, issues no syscall on the local
\* kernel, and clears its guard (and the in-progress flag).
C11_NullReplyGivesEIO ==
    [][\A t \in Threads :
         NullReplyStep(t) =>
            /\ rpc_client[t] # "NULL"
            /\ c_ret'[t].req = Top(t).req
            /\ c_ret'[t].result = -1
            /\ c_ret'[t].errno = EIO
            /\ c_errno'[t] = EIO
            /\ ksys' = ksys
            /\ Top(t).req.op \notin in_intercept'[t]
            /\ ~rpc_in_progress'[t]]_vars

C11_Witness ==
    \E t \in Threads :
        /\ c_ret[t] = Ret(FdReq("close", 3, 0), -1, EIO, "eio")
        /\ ksys[t] = NoSys
        /\ rpc_client[t] # "NULL"
        /\ "close" \notin in_intercept[t]

\* the syscall of the kernel that implements each interposed symbol
SyscallOf(op) ==
    CASE op = "pread" -> "SYS_pread64"
      [] op = "pwrite" -> "SYS_pwrite64"
      [] OTHER -> "SYS_" \o op

\* the step in which an interceptor that got no handle returns
FallbackStep(t) ==
    /\ AtPc(t, "fallback")
    /\ Len(stack'[t]) < Len(stack[t])

\* C12: when get_rpc_client returns NULL the interposed symbol executes the
\* corresponding syscall on the local kernel and returns its result, and sends
\* nothing to the server.
C12_FallbackRunsOwnSyscall ==
    [][\A t \in Threads :
         FallbackStep(t) =>
            /\ ksys'[t].nr = SyscallOf(Top(t).req.op)
            /\ c_ret'[t].req = Top(t).req
            /\ \E k \in LocalOutcomesOf(Top(t).req) :
                 c_ret'[t].result = k.ret /\ c_ret'[t].errno = ErrnoAfter(t, k)
            /\ chan' = chan]_vars

\* C13: once the creation of the handle has failed on a thread, the thread's
\* handle stays NULL and every later non-reentrant call takes the fallback path.
C13_FailedHandleStaysNull ==
    \A t \in Threads :
        hlife[t].failed =>
            /\ rpc_client[t] = "NULL"
            /\ c_ret[t].via \notin {"rpc", "eio"}

\* C14: each thread creates at most one handle and destroys at most one; once
\* the teardown hook has destroyed the handle no later call creates another.
C14_OneHandlePerThread ==
    \A t \in DOMAIN hlife :
        /\ hlife[t].created <= 1
        /\ hlife[t].destroyed <= 1

\* the step in which an interceptor of thread t starts an exchange
ExchangeStart(t) == chan[t].st # "req" /\ chan'[t].st = "req"

\* C15: when the teardown hook has run, every handle a thread created has been
\* destroyed exactly once, and no exchange starts on a handle that is being
\* destroyed or has been destroyed.
C15_EveryHandleDestroyedOnce ==
    /\ [](torn.st = "done" =>
            \A t \in DOMAIN hlife :
                hlife[t].destroyed = hlife[t].created /\ hlife[t].destroyed <= 1)
    /\ [][\A t \in DOMAIN hlife :
            ExchangeStart(t) => ~(torn.by = t /\ torn.st \in {"destroying", "closing"})]_vars

\* C16: in every response of the server, err = 0 whenever result >= 0, also
\* when earlier kernel calls of the server have failed.
C16_SuccessReplyHasErrZero ==
    \A t \in DOMAIN chan :
        (chan[t].st = "resp" /\ chan[t].res.result >= 0) => chan[t].res.err = 0

\* the step in which a read or pread of the target returns result >= 0 on a
\* thread that holds a handle
ReadReturn(t) ==
    /\ Len(stack[t]) = 1 /\ stack'[t] = <<>>
    /\ Top(t).origin = "target"
    /\ Top(t).req.op \in {"read", "pread"}
    /\ rpc_client[t] # "NULL"
    /\ c_ret'[t].result >= 0

\* C17: a read or pread through the shim that returns result >= 0 for count c
\* leaves the first min(result, c) bytes of the caller's buffer equal to the
\* first bytes of the server's payload, and the remaining bytes as they were.
C17_BufferHoldsServerPayload ==
    [][\A t \in Threads :
         ReadReturn(t) =>
            /\ chan[t].st = "resp"
            /\ c_ret'[t].result = chan[t].res.result
            /\ LET n == IF c_ret'[t].result < Top(t).req.count
                        THEN c_ret'[t].result ELSE Top(t).req.count
               IN /\ Len(chan[t].res.data) >= n
                  /\ c_buf'[t] = memcpy(c_buf[t], chan[t].res.data, n)]_vars

\* C18: whatever the count of a read or pread request, the reply's result is at
\* most MAX_BUFFER_SIZE and at most the count, and the kernel read is issued
\* with min(count, MAX_BUFFER_SIZE).
C18_ReadCountClamped ==
    [][\A t \in Threads :
         ServeStep(t, {"read", "pread"}) =>
            LET req == chan[t].req
                res == chan'[t].res
            IN  /\ res.result <= MAX_BUFFER_SIZE
                /\ res.result <= req.count
                /\ Len(res.data) <= MAX_BUFFER_SIZE
                /\ translate_fd(fd_mapping, req.fd) >= 0 =>
                      /\ Len(ktrace') = 1
                      /\ ktrace'[1].call = req.op
                      /\ ktrace'[1].count =
                            IF req.count < MAX_BUFFER_SIZE THEN req.count ELSE MAX_BUFFER_SIZE]_vars

C18_Witness ==
    \E t \in Threads :
        /\ Served(t, {"read", "pread"})
        /\ chan[t].req.count > MAX_BUFFER_SIZE
        /\ chan[t].res.result = MAX_BUFFER_SIZE
        /\ ktrace = <<KRead(chan[t].req.op, fd_mapping[chan[t].req.fd], MAX_BUFFER_SIZE,
                            MAX_BUFFER_SIZE)>>

\* bit b (a power of two) is set in f
HasBit(f, b) == (f \div b) % 2 = 1
\* the bits of O_TMPFILE: __O_TMPFILE and O_DIRECTORY
TmpfileBits == {4194304, 65536}

\* C19: for open, open64 and openat the mode forwarded, in the request and on
\* the direct path alike, is the caller's variadic argument exactly when
\* flags & (O_CREAT | O_TMPFILE) is non-zero; otherwise the variadic argument is
\* not read and mode 0 is forwarded.
C19_ModeForwarded ==
    o_call.sym # "none" =>
        IF HasBit(o_call.flags, O_CREAT) \/ \E b \in TmpfileBits : HasBit(o_call.flags, b)
        THEN o_call.va_read /\ (o_call.has_va => o_call.mode = o_call.va)
        ELSE ~o_call.va_read /\ o_call.mode = 0

C19_Witness ==
    /\ o_call.sym = "open64" /\ o_call.via = "direct"
    /\ o_call.flags = 4259842 /\ o_call.has_va /\ o_call.va = 384
    /\ o_call.mode = 384 /\ o_call.va_read

\* C20: no diagnostic of the shim goes through the RPC path of the interposed
\* write: a log line of the shim never makes a write request to the server.
C20_LogsNeverReachServer ==
    [][\A t \in Threads :
         (ExchangeStart(t) /\ chan'[t].req.op = "write") => Top(t).origin # "shim"]_vars

\* C24: every successful open or openat returns the lowest client descriptor
\* at or above 3 that is not mapped when the request is served, and never one
\* that is mapped.
C24_OpenReturnsLowestFree ==
    [][\A t \in Threads :
         (ServeStep(t, {"open", "openat"}) /\ chan'[t].res.result >= 0) =>
            LET r == chan'[t].res.result
            IN  /\ r >= FIRST_CLIENT_FD /\ r < MAX_FDS
                /\ fd_mapping[r] = -1
                /\ \A i \in FIRST_CLIENT_FD..(r - 1) : fd_mapping[i] # -1]_vars

\* the step in which the server serves a request of connection t that is not
\* an F_DUPFD or F_DUPFD_CLOEXEC
NonDupStep(t) ==
    /\ chan[t].st = "req" /\ chan'[t].st = "resp"
    /\ ~(chan[t].req.op = "fcntl" /\ chan[t].req.cmd \in DupCmds)

\* C25: next_client_fd never decreases; open, openat and close requests,
\* successful or failed, move it by +1 or not at all (close never moves it),
\* and only F_DUPFD and F_DUPFD_CLOEXEC can move it by more.
C25_CursorMonotone ==
    [][/\ next_client_fd' >= next_client_fd
       /\ \A t \in Threads :
            /\ NonDupStep(t) => next_client_fd' \in {next_client_fd, next_client_fd + 1}
            /\ ServeStep(t, {"close"}) => next_client_fd' = next_client_fd
            /\ ServeStep(t, {"open", "openat"}) =>
                  (next_client_fd' = next_client_fd + 1) <=> (chan'[t].res.result >= 0)]_vars

\* a close has freed a slot below the cursor, and a dup has moved the cursor by
\* more than one
C25_Witness ==
    /\ next_client_fd = 11
    /\ fd_mapping[3] = -1 /\ fd_mapping[10] # -1
    /\ \E t \in Threads : Served(t, {"close"}) /\ chan[t].res.result = 0

\* the step in which the server serves an F_DUPFD or F_DUPFD_CLOEXEC of connection t
DupStep(t) ==
    /\ ServeStep(t, {"fcntl"})
    /\ chan[t].req.cmd \in DupCmds

\* C26: a successful F_DUPFD or F_DUPFD_CLOEXEC with minimum min_fd gets the
\* first free slot at or above max(min_fd, next_client_fd), so free slots below
\* the cursor are not used; next_client_fd becomes assigned + 1 exactly when the
\* assigned slot is at or above the old cursor and is unchanged otherwise.
C26_DupSlot ==
    [][\A t \in Threads :
         (DupStep(t) /\ chan'[t].res.result >= 0) =>
            LET r == chan'[t].res.result
                min_fd == chan[t].req.iarg
                start == IF min_fd > next_client_fd THEN min_fd ELSE next_client_fd
            IN  /\ r >= start /\ r < MAX_FDS
                /\ fd_mapping[r] = -1
                /\ \A i \in start..(r - 1) : fd_mapping[i] # -1
                /\ fd_mapping' = [fd_mapping EXCEPT ![r] = ktrace'[1].ret]
                /\ next_client_fd' = IF r >= next_client_fd THEN r + 1
                                                           ELSE next_client_fd]_vars

\* a dup with a minimum below the cursor that passed over a free slot
C26_Witness ==
    \E t \in Threads :
        /\ Served(t, {"fcntl"}) /\ chan[t].req.cmd \in DupCmds
        /\ chan[t].req.iarg = 0
        /\ chan[t].res.result = 5
        /\ fd_mapping[4] = -1
        /\ next_client_fd = 6

\* C27: an open or openat request whose kernel open fails leaves the whole
\* table and next_client_fd unchanged and is answered result = -1 with the
\* errno of the kernel call.
C27_FailedOpenLeavesTable ==
    [][\A t \in Threads :
         (ServeStep(t, {"open", "openat"}) /\ ktrace'[1].ret < 0) =>
            /\ fd_mapping' = fd_mapping
            /\ next_client_fd' = next_client_fd
            /\ Len(ktrace') = 1
            /\ chan'[t].res.result = -1
            /\ chan'[t].res.err = s_errno'
            /\ chan'[t].res.err \in {ENOENT, KErr.EMFILE}]_vars

\* a failed open of a missing path served while a descriptor is mapped
C27_Witness ==
    \E t \in Threads :
        /\ Served(t, {"open", "openat"})
        /\ chan[t].req.path = "/tmp/nonexistent_abcdef"
        /\ chan[t].res.result = -1 /\ chan[t].res.err = ENOENT
        /\ ktrace = <<KCall(chan[t].req.op, -1, -1)>>
        /\ fd_mapping[3] # -1 /\ next_client_fd = 4

\* C28: when the kernel dup of an F_DUPFD or F_DUPFD_CLOEXEC request succeeds
\* but no slot is free at or above max(min_fd, next_client_fd), the reply is
\* result = -1, err = ENFILE, the duplicate server descriptor is closed, and the
\* table and next_client_fd are unchanged.
C28_DupTableFull ==
    [][\A t \in Threads :
         (/\ DupStep(t)
          /\ Len(ktrace') >= 1 /\ ktrace'[1].ret >= 0
          /\ LET min_fd == chan[t].req.iarg
                 start == IF min_fd > next_client_fd THEN min_fd ELSE next_client_fd
             IN  \A i \in start..(MAX_FDS - 1) : fd_mapping[i] # -1) =>
            /\ chan'[t].res.result = -1
            /\ chan'[t].res.err = ENFILE
            /\ Len(ktrace') = 2
            /\ ktrace'[2].call = "close" /\ ktrace'[2].fd = ktrace'[1].ret
            /\ ktrace'[1].ret \notin DOMAIN kfd'
            /\ fd_mapping' = fd_mapping
            /\ next_client_fd' = next_client_fd]_vars

C28_Witness ==
    \E t \in Threads :
        /\ Served(t, {"fcntl"}) /\ chan[t].req.cmd \in DupCmds
        /\ chan[t].res.result = -1 /\ chan[t].res.err = ENFILE
        /\ Len(ktrace) = 2 /\ ktrace[1].ret >= 0 /\ ktrace[2].call = "close"
        /\ next_client_fd = MAX_FDS
        /\ fd_mapping[MAX_FDS - 1] # -1

StdioFds == 0..(FIRST_CLIENT_FD - 1)

\* C29: client descriptors 0, 1 and 2 are never mapped: no open, openat or
\* F_DUPFD, whatever its minimum, returns a client descriptor below 3, and every
\* request that names 0, 1 or 2 is answered as unmapped.
C29_StdioNeverMapped ==
    /\ [](/\ \A i \in StdioFds : fd_mapping[i] = -1
          /\ next_client_fd >= FIRST_CLIENT_FD
          /\ \A t \in Threads :
               (Served(t, {"open", "openat", "fcntl"}) /\ Allocating(chan[t].req)) =>
                  chan[t].res.result \notin StdioFds)
    /\ [][\A t \in Threads :
            (ServeStep(t, FdOps) /\ chan[t].req.fd \in StdioFds) =>
               /\ h_server_fd' = -1
               /\ chan'[t].res.result = -1
               /\ fd_mapping' = fd_mapping
               /\ next_client_fd' = next_client_fd
               /\ kfd' = kfd
               /\ chan[t].req.op # "fstat" =>
                     ktrace' = <<>> /\ chan'[t].res.err = EBADF]_vars

\* a dup with minimum 0 has been given a descriptor above the stdio range, and a
\* close of descriptor 2 is answered as unmapped
C29_Witness ==
    \E t \in Threads :
        /\ chan[t] = [st |-> "resp", req |-> FdReq("close", 2, 0), res |-> Res(-1, EBADF)]
        /\ \E b \in DOMAIN dupsrc : b \in live
        /\ next_client_fd = 5 /\ fd_mapping[4] # -1

\* C30: the mapping from mapped client descriptors to server descriptors is
\* one-to-one in every reachable state, also after a kernel close that failed
\* and left its mapping in place.
C30_MappingInjective ==
    \A a \in live : \A b \in live :
        (a # b /\ fd_mapping[a] # -1) => fd_mapping[a] # fd_mapping[b]

\* the reentry guards and the two flags of thread t
FlagsOf(t) == <<in_intercept[t], rpc_in_progress[t], in_rpc_init[t]>>

C21_AtMostOneConnection ==
    /\ Cardinality(net.accepted) <= 1
    /\ \A c \in Conns : chan[c].st # "idle" => net.accepted = {c}

\* the step in which the reply for connection c is written to its socket
SendStep(c) == ~net.wire[c].full /\ net.wire'[c].full

C31_PayloadLengthIsResult ==
    \A c \in Conns :
       /\ Served(c, {"read", "pread"}) =>
             /\ chan[c].res.result >= -1
             /\ Len(chan[c].res.data) =
                   (IF chan[c].res.result >= 0 THEN chan[c].res.result ELSE 0)
       /\ net.wire[c].full /\ chan[c].req.op \in {"read", "pread"} =>
             Len(net.wire[c].res.data) =
                (IF net.wire[c].res.result >= 0 THEN net.wire[c].res.result ELSE 0)

\* C31 witness: the handler's static record held a payload of the request before
\* (its reply is still on t1's connection) when t2's request of the same kind
\* failed (in the kernel or on an unmapped descriptor)
C31_Witness ==
    \E op \in {"read", "pread"} :
       /\ net.wire["t1"].full /\ chan["t1"].req.op = op
       /\ Len(net.wire["t1"].res.data) > 0
       /\ net.busy = "t2" /\ chan["t2"].req.op = op
       /\ chan["t2"].res.result = -1 /\ chan["t2"].res.data = <<>>
       /\ net.sres[op].data = <<>>

\* C32: for stat, fstat and newfstatat, a reply for a failed server-side call has
\* result = -1 and every stat field zero, and the shim leaves the caller's stat
\* buffer as it was (also when the stub returns no reply); the caller's buffer is
\* zeroed and filled with the fields of the reply only when result >= 0
C32_StatBufferOnlyOnSuccess ==
    /\ [](\A t \in Threads :
             Served(t, StatOps) /\ chan[t].res.result # 0 =>
                chan[t].res.result = -1 /\ chan[t].res.st = ZeroStat)
    /\ [][\A t \in Threads :
             /\ ReplyStep(t) /\ Top(t).req.op \in StatOps =>
                   IF chan[t].res.result >= 0
                      THEN /\ \A f \in DOMAIN ZeroStat : c_out'[t].st[f] = chan[t].res.st[f]
                           /\ c_out'[t].st.rest = 0
                      ELSE c_out'[t].st = GarbageStat /\ c_out[t].st = GarbageStat
             /\ NullReplyStep(t) /\ Top(t).req.op \in StatOps => c_out'[t] = c_out[t]]_vars

\* C32 witness: a stat call of the target failed on the server and returned
\* through the reply with the caller's buffer as the caller left it
C32_Witness ==
    /\ stack["t1"] = <<>> /\ c_ret["t1"].via = "rpc"
    /\ c_ret["t1"].req.op \in StatOps /\ c_ret["t1"].result = -1
    /\ c_out["t1"].st = GarbageStat

\* C33: the shim overwrites the caller's flock record exactly when cmd is
\* F_GETLK and the reply has result >= 0, and then with the five fields the
\* server's kernel produced; after F_SETLK, F_SETLKW and after any failed fcntl
\* (also when the stub returns no reply) the caller's flock is unchanged
C33_FlockOnlyOnGetlkSuccess ==
    /\ [](\A t \in Threads :
             Served(t, {"fcntl"}) /\ chan[t].req.cmd = "F_GETLK" /\ chan[t].res.result >= 0 =>
                /\ chan[t].res.arg_out.type = "FCNTL_ARG_FLOCK"
                /\ chan[t].res.arg_out.flock \in k_getlk(chan[t].req.flock))
    /\ [][\A t \in Threads :
             /\ ReplyStep(t) /\ Top(t).req.op = "fcntl" =>
                   IF Top(t).req.cmd = "F_GETLK" /\ chan[t].res.result >= 0
                      THEN /\ c_out'[t].flock = chan[t].res.arg_out.flock
                           /\ c_out'[t].flock # c_out[t].flock
                      ELSE c_out'[t].flock = c_out[t].flock /\ c_out[t].flock = Top(t).req.flock
             /\ NullReplyStep(t) /\ Top(t).req.op = "fcntl" => c_out'[t] = c_out[t]]_vars

\* C33 witness: an F_GETLK of the target came back with the description of a
\* lock another process holds, now in the caller's flock record
C33_Witness ==
    /\ stack["t1"] = <<>> /\ c_ret["t1"].via = "rpc"
    /\ c_ret["t1"].req.op = "fcntl" /\ c_ret["t1"].req.cmd = "F_GETLK"
    /\ c_ret["t1"].result >= 0
    /\ c_out["t1"].flock.l_pid = 4242 /\ c_out["t1"].flock # c_ret["t1"].req.flock

\* the parameters of each interposed symbol, in the order of its signature
CallerArgs(req) ==
    CASE req.op = "open" -> <<"pathname", "flags", "mode">>
      [] req.op = "openat" -> <<"dirfd", "pathname", "flags", "mode">>
      [] req.op \in {"close", "fdatasync"} -> <<"fd">>
      [] req.op \in {"read", "write"} -> <<"fd", "buf", "count">>
      [] req.op \in {"pread", "pwrite"} -> <<"fd", "buf", "count", "offset">>
      [] req.op = "stat" -> <<"pathname", "statbuf">>
      [] req.op = "fstat" -> <<"fd", "statbuf">>
      [] req.op = "newfstatat" -> <<"dirfd", "pathname", "statbuf", "flags">>
      [] req.op = "fcntl" ->
            CASE req.atype = "FCNTL_ARG_INT" -> <<"fd", "cmd", "int_arg">>
              [] req.atype = "FCNTL_ARG_FLOCK" -> <<"fd", "cmd", "flock_ptr">>
              [] OTHER -> <<"fd", "cmd">>

\* C34 (as stated): on the reentry-bypass path and on the no-handle fallback
\* path every interposed symbol issues the syscall of that same symbol with the
\* caller's arguments in the caller's order and returns its result.  pread
\* issues SYS_preadv, and newfstatat passes only pathname and statbuf.
C34_DirectSyscallIsOwnSymbol ==
    \A t \in Threads :
        c_ret[t].via \in {"direct", "fallback"} =>
            /\ ksys[t].nr = SyscallOf(c_ret[t].req.op)
            /\ ksys[t].args = CallerArgs(c_ret[t].req)
            /\ \E k \in LocalOutcomesOf(c_ret[t].req) : c_ret[t].result = k.ret

\* a target call of thread t returns to the target
TargetReturn(t) == Len(stack[t]) = 1 /\ stack'[t] = <<>>

\* C35 (as stated): after the server has dropped the connection the handle stays
\* non-null, and every later non-reentrant interposed call on that thread
\* attempts the exchange on the same handle and returns -1 with errno = EIO
\* instead of going to the local kernel.  (A call whose reply arrived before the
\* drop still returns that reply.)
C35_DroppedConnectionGivesEIO ==
    /\ [](\A t \in Threads : t \notin net.open => rpc_client[t] = "HANDLE")
    /\ [][\A t \in Threads :
             TargetReturn(t) /\ t \notin net.open /\ chan[t].st # "resp" =>
                /\ AtPc(t, "wait")
                /\ c_ret'[t].via = "eio"
                /\ c_ret'[t].result = -1 /\ c_ret'[t].errno = EIO
                /\ ksys'[t] = NoSys]_vars

ActiveSymbols(t) == {stack[t][i].req.op : i \in 1..Len(stack[t])}

\* C37: whenever a thread is outside all interposed symbols, all its per-symbol
\* guards, its rpc_in_progress flag and its in_rpc_init flag are 0; a guard is 1
\* only between the guard-set and the guard-clear of the one call that set it
C37_FlagsClearOutsideCalls ==
    \A t \in Threads :
        /\ in_intercept[t] = ActiveSymbols(t)
        /\ stack[t] = <<>> =>
              in_intercept[t] = {} /\ ~rpc_in_progress[t] /\ ~in_rpc_init[t]
        /\ rpc_in_progress[t] \/ in_rpc_init[t] => stack[t] # <<>>

\* C37 witness: the thread is back outside all symbols, flags clear, after a
\* call that returned on one of the four paths with a nested call inside it
C37_Witness ==
    /\ stack["t1"] = <<>> /\ in_intercept["t1"] = {}
    /\ ~rpc_in_progress["t1"] /\ ~in_rpc_init["t1"]
    /\ c_ret["t1"].via \in {"rpc", "eio", "fallback"}
    /\ nnested["t1"] > 0

\* C38: in every reachable server state every table slot at an index >=
\* next_client_fd is free, so add_fd_mapping never overwrites a mapped entry and
\* the search of an F_DUPFD succeeds at its first probe max(min_fd,
\* next_client_fd) whenever that index is below MAX_FDS
C38_SlotsAboveCursorFree ==
    /\ [](\A i \in next_client_fd..(MAX_FDS - 1) : fd_mapping[i] = -1)
    /\ [][\A t \in Threads :
             /\ ServeStep(t, {"open", "openat"}) /\ chan'[t].res.result >= 0 =>
                   /\ chan'[t].res.result = next_client_fd
                   /\ fd_mapping[next_client_fd] = -1
             /\ DupStep(t) /\ Len(ktrace') >= 1 /\ ktrace'[1].ret >= 0 =>
                   LET min_fd == chan[t].req.iarg
                       start == IF min_fd > next_client_fd THEN min_fd ELSE next_client_fd
                   IN  start < MAX_FDS =>
                          chan'[t].res.result = start /\ fd_mapping[start] = -1]_vars

\* C38 witness: a dup with minimum 10 got slot 10 at its first probe while slot 3
\* below the cursor had been freed by a close
C38_Witness ==
    \E t \in Threads :
        /\ Served(t, {"fcntl"}) /\ chan[t].req.cmd \in DupCmds
        /\ chan[t].req.iarg = 10 /\ chan[t].res.result = 10
        /\ next_client_fd = 11
        /\ fd_mapping[3] = -1 /\ fd_mapping[4] # -1

\* the reply on the wire hands out client descriptor v
Issued(t, v) ==
    /\ Served(t, {"open", "openat", "fcntl"})
    /\ chan[t].req.op = "fcntl" => chan[t].req.cmd \in DupCmds
    /\ chan[t].res.result = v

\* descriptor values followed through a run
IssuedProbes == {3, 4, 10}

\* C39 (corrected): a client descriptor value is issued at most once in the
\* server's lifetime, also after a close has freed it; and once next_client_fd
\* has reached MAX_FDS no open, openat or F_DUPFD is answered with a descriptor
\* any more, however many were closed: a request whose kernel call succeeds is
\* answered -1 with ENFILE (and the new server descriptor is closed again)
C39_ValuesIssuedOnce ==
    /\ \A t \in Threads, v \in IssuedProbes :
          [](Issued(t, v) => [](~Issued(t, v) => []~Issued(t, v)))
    /\ [](\A t \in Threads :
             next_client_fd = MAX_FDS /\ chan[t].st = "resp" /\ Allocating(chan[t].req) =>
                /\ chan[t].res.result = -1 \/ chan[t].res.result = MAX_FDS - 1
                /\ chan[t].res.result = -1 /\ Len(ktrace) >= 1 /\ ktrace[1].ret >= 0 =>
                      chan[t].res.err = ENFILE /\ Len(ktrace) = 2 /\ ktrace[2].call = "close")

\* C39 witness: the cursor is at MAX_FDS, descriptor 3 has been closed, and an
\* open whose kernel call succeeded is answered ENFILE
C39_Witness ==
    \E t \in Threads :
        /\ next_client_fd = MAX_FDS /\ fd_mapping[3] = -1
        /\ Served(t, {"open", "openat"})
        /\ Len(ktrace) = 2 /\ ktrace[1].ret >= 0
        /\ chan[t].res.result = -1 /\ chan[t].res.err = ENFILE

\* C39 (as stated): once next_client_fd has reached MAX_FDS every later open,
\* openat and F_DUPFD is answered with ENFILE
C39_EveryAllocationENFILE ==
    \A t \in Threads :
        next_client_fd = MAX_FDS /\ chan[t].st = "resp" /\ Allocating(chan[t].req)
        /\ chan[t].res.result # MAX_FDS - 1 =>
            chan[t].res.result = -1 /\ chan[t].res.err = ENFILE

(***************************************************************************)
(* The two descriptor namespaces of a target process: descriptors the      *)
(* server issued and descriptors of the client's own kernel.  The target   *)
(* keeps the descriptors its calls returned and uses them in later calls.  *)
(***************************************************************************)
\* the descriptors the target holds after a call returned ret by way of side:
\* "rpc" when the server answered, "local" when the client's own kernel did.
\* open, openat and F_DUPFD add the value returned, a close that returned 0
\* removes its descriptor from the side that closed it
fds_after(fds, req, ret, side) ==
    IF Allocating(req) /\ ret >= 0 THEN [fds EXCEPT ![side] = @ \cup {ret}]
    ELSE IF req.op = "close" /\ ret = 0 THEN [fds EXCEPT ![side] = @ \ {req.fd}]
    ELSE fds

\* the descriptors the target holds once the call recorded in ret has returned
held_after(fds, ret) ==
    IF ret.via \in {"none", "eio"} THEN fds
    ELSE fds_after(fds, ret.req, ret.result, IF ret.via = "rpc" THEN "rpc" ELSE "local")

MixCalls ==
    {PathReq("open", "/tmp/t.txt", FALSE), FdReq("close", 3, 0), FdReq("write", 3, 3),
     FdReq("read", 3, 3)}

\* the target's next call; it has noted what its last call returned
MixCall(t) == TargetCallWith(t, MixCalls, held_after(c_fds, c_ret[t]))

MixServe(t) ==
    /\ UNCHANGED net
    /\ \/ syscall_open_1_svc(t)
       \/ syscall_close_1_svc(t)
       \/ syscall_write_1_svc(t)

MixNext ==
    \/ \E t \in Threads : MixCall(t)
    \/ \E t \in Threads : GetClient(t)
    \/ \E t \in Threads : InitDone(t)
    \/ \E t \in Threads : CallRpc(t)
    \/ \E t \in Threads : Fallback(t)
    \/ \E t \in Threads : ShimReceive(t)
    \/ \E t \in Threads : RpcFail(t)
    \/ \E t \in Threads : ReadConnect(t)
    \/ \E t \in Threads : ReadExit(t)
    \/ \E t \in Threads : ReadLog(t)
    \/ \E t \in Threads : ReadSys(t)
    \/ \E t \in Threads : MixServe(t)

MixSpec == Init /\ [][MixNext]_vars

\* the target's last call was a non-reentrant call on descriptor v that the shim
\* handed to the client's own kernel
HandedToLocalKernel(t, v) ==
    /\ stack[t] = <<>> /\ c_ret[t].via \in {"fallback", "local"}
    /\ c_ret[t].req.op \in FdOps /\ c_ret[t].req.fd = v
    /\ ksys[t].nr # "none"

\* a request on the wire names v as a client descriptor
SentAsClientFd(t, v) ==
    chan[t].st = "req" /\ chan[t].req.op \in FdOps /\ chan[t].req.fd = v

\* descriptor values followed through a run
MixProbes == {3}

\* C40 (as stated): a descriptor the shim returned from open, openat or F_DUPFD
\* via the RPC path is never handed to the local kernel by a later non-reentrant
\* call, and a descriptor obtained through the direct-kernel fallback is never
\* sent to the server as a client descriptor
C40_NamespacesNeverMix ==
    \A t \in Threads, v \in MixProbes :
        /\ HandedToLocalKernel(t, v) => v \notin c_fds.rpc
        /\ SentAsClientFd(t, v) => v \notin c_fds.local

====
